---- MODULE Spec2Model ----
(***************************************************************************)
(* A model of icecast-kh's src/connection.c: connection id allocation,     *)
(* the I/O adapter over plain and TLS sockets, the listen-socket manager,  *)
(* the banned-IP cache and the per-client request operations (legacy       *)
(* shoutcast handshake, HTTP preamble reader, source setup).               *)
(*                                                                         *)
(* Text is modelled as sequences of byte values (ASCII codes); a C string  *)
(* is the part of a byte sequence before its first 0 byte.                 *)
(***************************************************************************)
EXTENDS Integers, Sequences, FiniteSets, TLC

\* ------------------------------------------------------------------------
\* Bounds of the model (not program constants).
\* ------------------------------------------------------------------------

\* vectors held by one struct connection_bufs, and the length of each
MaxVecs == 2
MaxVecLen == 2
\* bytes the transport accepts over the life of one connection
MaxWire == 2
\* listeners in one configuration
MaxListeners == 2
\* clock advances in one behaviour of the ban cache
MaxTicks == 2
\* the size of the per-client request buffer
PER_CLIENT_REFBUF_SIZE == 96
\* config->header_timeout, in seconds
header_timeout == 1
\* number of threads that call connection_init concurrently
NThreads == 2
\* connection ids allocated in one run (the 64-bit counter itself never wraps
\* within any run the model can hold)
MaxIds == 3
\* connections the accept thread takes on
MaxAccepts == 1
\* polls that report a listening socket as failed
MaxSweeps == 1
\* the largest client count and client limit a GET is handled under
MaxClients == 2

\* ------------------------------------------------------------------------
\* Program constants.
\* ------------------------------------------------------------------------

\* SOCK_ERROR, the "no socket" sentinel (net/sock.h; used at connection.c:671)
SOCK_ERROR == -1

NULL == "NULL"

\* ------------------------------------------------------------------------
\* State
\* ------------------------------------------------------------------------

VARIABLES
    \* -- connection id allocation
    current_id,        \* static uint64_t _current_id
    connection_lock,   \* static spin_t _connection_lock: 0 free, else the holder
    pc,                \* per thread: position inside connection_init
    id,                \* per thread: the local "id" of _next_connection_id
    tcon,              \* per thread: the connection_t being initialised
    handed,            \* history: <<thread, id>> in the order ids were taken
    \* -- I/O adapter: one connection_t and one struct connection_bufs
    con,               \* connection_t: sock, ssl, ip, error, sent_bytes
    bufs,              \* struct connection_bufs: block (the IOVECs), total
    sock_closes,       \* per descriptor: how often sock_close was called on it
    wire,              \* bytes the transport accepted on this connection
    wroteAfterError,   \* a send call put bytes on the wire with con.error set
    ioOp,              \* the last adapter call: what it was given and returned
    \* -- listen-socket manager
    serversock,        \* global.serversock: the array of listening descriptors
    server_conn,       \* global.server_conn: the parallel array of listener_t*
    server_sockets,    \* global.server_sockets: the number of valid entries
    config,            \* ice_config_t: listen_sock (the list), listen_sock_count
    heap,              \* the listener_t objects: port, bind_address, refcount
    os,                \* the listening sockets the kernel holds open
    listen_oob,        \* a store was made past the end of the arrays
    listenOp,          \* the last manager call and its arguments
    \* -- IP access cache
    banned_ip,         \* cache_file_contents: contents (literal set), wildcards
    allowed_ip,        \* the allow list: no data, or its patterns
    now,               \* what time (NULL) returns
    ticks,             \* how often the clock has advanced
    cachefile_timecheck,
    born,              \* instant and duration of the latest timed ban of Ip1
    lastHit,           \* instant of the latest lookup of Ip1 that matched
    banOp,             \* the last cache call, its argument and result
    \* -- one client, from accept to dispatch
    client,            \* client_t: ops, shared_data, refbuf, pos, parser, ...
    peer,              \* which session the peer plays, and its bytes not yet read
    sent,              \* the bytes written to the peer so far
    running,           \* global.running
    current_time,      \* client->worker->current_time.tv_sec
    request,           \* the bytes last handed to httpp_parse
    clientOp,          \* the last per-client operation run, and what it returned
    \* -- connection_init with its address argument
    icon,              \* the connection_t given to connection_init
    initOp,            \* the last connection_init call: arguments and result
    \* -- the accept thread
    connection_running, \* int connection_running
    apc,               \* where the accept thread is
    alocal,            \* its locals: serversock, sock, addr, client
    asocks,            \* the accepted sockets that are open
    clients,           \* global.clients: the clients registered
    added,             \* the client last handed to client_add_worker
    unlocked_write,    \* the listen arrays were written without the global lock
    sweeps,            \* how many polls reported a listening socket as failed
    acceptOp,          \* the last step of the accept thread and its outcome
    \* -- the handlers behind the dispatcher
    getOp,             \* the last _handle_get_request: what it saw and where it went
    \* -- what the transport did in the last call
    ioIn,              \* the call, and the outcome the transport gave it
    \* -- process-wide flags and the credential check
    schedule_config_reread, \* global.schedule_config_reread
    passOp,            \* the last connection_check_pass: what it saw and returned
    \* -- the kernel's accept queues, where they are followed
    pending,           \* the listening sockets with a connection waiting
    \* -- what the last ban search took out of the cache
    evicted,           \* the entries the last search_banned_ip_locked deleted
    \* -- the thread that stops the accept thread
    joining            \* where connection_thread_shutdown is: "no", "waiting", "joined"

idVars == <<current_id, connection_lock, pc, id, tcon, handed>>
connVars == <<con, bufs, sock_closes, wire, wroteAfterError, ioOp>>

listenVars == <<serversock, server_conn, server_sockets, config, heap, os,
                listen_oob, listenOp>>

banVars == <<banned_ip, allowed_ip, now, ticks, cachefile_timecheck, born,
             lastHit, banOp>>

clientVars == <<client, peer, sent, running, current_time, request, clientOp>>

initVars == <<icon, initOp>>

acceptVars == <<connection_running, apc, alocal, asocks, clients, added,
                unlocked_write, sweeps, acceptOp>>

handlerVars == <<getOp>>

ioVars == <<ioIn>>

miscVars == <<schedule_config_reread, passOp>>

kernelVars == <<pending>>

joinVars == <<joining>>

evictVars == <<evicted>>

vars == <<idVars, connVars, listenVars, banVars, clientVars, initVars, acceptVars,
          handlerVars, ioVars, miscVars, kernelVars, evictVars, joinVars>>

\* what the operations of one part leave alone: the other parts
IdFrame ==
    UNCHANGED <<connVars, listenVars, banVars, clientVars, initVars, acceptVars, handlerVars, ioVars,
               miscVars, kernelVars, evictVars, joinVars>>
ConnFrame ==
    UNCHANGED <<idVars, listenVars, banVars, clientVars, initVars, acceptVars, handlerVars, ioVars,
               miscVars, kernelVars, evictVars, joinVars>>
ListenFrame ==
    UNCHANGED <<idVars, connVars, banVars, clientVars, initVars, acceptVars, handlerVars, ioVars,
               miscVars, kernelVars, evictVars, joinVars>>
BanFrame ==
    UNCHANGED <<idVars, connVars, listenVars, clientVars, initVars, acceptVars, handlerVars, ioVars,
               miscVars, kernelVars, evictVars, joinVars>>
HandlerFrame ==
    UNCHANGED <<idVars, connVars, listenVars, banVars, clientVars, initVars, acceptVars,
                ioVars, miscVars, kernelVars, evictVars, joinVars>>
ClientFrame ==
    UNCHANGED <<idVars, connVars, listenVars, banVars, initVars, acceptVars, handlerVars, ioVars,
               miscVars, kernelVars, evictVars, joinVars>>

\* ========================================================================
\* 1. Connection id allocation (_next_connection_id, connection_init)
\* ========================================================================

Threads == 1..NThreads

NoCon == [sock |-> SOCK_ERROR, id |-> 0, ip |-> NULL]

IdInit ==
    /\ current_id = 0
    /\ connection_lock = 0
    /\ pc = [t \in Threads |-> "idle"]
    /\ id = [t \in Threads |-> 0]
    /\ tcon = [t \in Threads |-> NoCon]
    /\ handed = <<>>

\* connection_init up to the call of _next_connection_id: con->sock = sock and
\* the early return for SOCK_ERROR.
connection_init_enter(t, sock) ==
    /\ pc[t] = "idle"
    /\ current_id < MaxIds
    /\ tcon' = [tcon EXCEPT ![t] = [sock |-> sock, id |-> 0, ip |-> NULL]]
    /\ pc' = [pc EXCEPT ![t] = IF sock = SOCK_ERROR THEN "idle" ELSE "lock"]
    /\ UNCHANGED <<current_id, connection_lock, id, handed>>
    /\ IdFrame

\* thread_spin_lock without mutual exclusion
thread_spin_lock_absent(t) ==
    /\ pc[t] = "lock"
    /\ pc' = [pc EXCEPT ![t] = "read"]
    /\ UNCHANGED <<current_id, connection_lock, id, tcon, handed>>
    /\ IdFrame

\* thread_spin_lock (&_connection_lock)
thread_spin_lock(t) ==
    /\ pc[t] = "lock"
    /\ connection_lock = 0
    /\ connection_lock' = t
    /\ pc' = [pc EXCEPT ![t] = "read"]
    /\ UNCHANGED <<current_id, id, tcon, handed>>
    /\ IdFrame

\* id = _current_id++ : the load
next_id_load(t) ==
    /\ pc[t] = "read"
    /\ id' = [id EXCEPT ![t] = current_id]
    /\ handed' = Append(handed, <<t, current_id>>)
    /\ pc' = [pc EXCEPT ![t] = "incr"]
    /\ UNCHANGED <<current_id, connection_lock, tcon>>
    /\ IdFrame

\* id = _current_id++ : the store of the incremented value
next_id_store(t) ==
    /\ pc[t] = "incr"
    /\ current_id' = id[t] + 1
    /\ pc' = [pc EXCEPT ![t] = "unlock"]
    /\ UNCHANGED <<connection_lock, id, tcon, handed>>
    /\ IdFrame

\* thread_spin_unlock (&_connection_lock)
thread_spin_unlock(t) ==
    /\ pc[t] = "unlock"
    /\ connection_lock' = IF connection_lock = t THEN 0 ELSE connection_lock
    /\ pc' = [pc EXCEPT ![t] = "assign"]
    /\ UNCHANGED <<current_id, id, tcon, handed>>
    /\ IdFrame

\* con->id = <returned id>, then the rest of connection_init: the ip is stored
\* and 0 returned (ok), or the connection is zeroed, marked SOCK_ERROR and -1
\* returned (getpeername failed or the address was refused).
connection_init_finish(t, ok) ==
    /\ pc[t] = "assign"
    /\ tcon' = [tcon EXCEPT ![t] =
                  IF ok THEN [sock |-> tcon[t].sock, id |-> id[t], ip |-> "ip"]
                        ELSE NoCon]
    /\ pc' = [pc EXCEPT ![t] = "idle"]
    /\ UNCHANGED <<current_id, connection_lock, id, handed>>
    /\ IdFrame

NextId ==
    \E t \in Threads :
        \/ \E sock \in {SOCK_ERROR, 3 + t} : connection_init_enter(t, sock)
        \/ thread_spin_lock(t)
        \/ next_id_load(t)
        \/ next_id_store(t)
        \/ thread_spin_unlock(t)
        \/ \E ok \in BOOLEAN : connection_init_finish(t, ok)

\* C1: the ids taken by _next_connection_id, in the order they were taken, are
\* strictly increasing (hence pairwise distinct), whichever threads took them.
C1_IdsStrictlyIncreasing ==
    \A i, j \in 1..Len(handed) : i < j => handed[i][2] < handed[j][2]

\* C1 witness: several ids have been handed out, to different threads.
C1_Witness ==
    /\ Len(handed) >= 3
    /\ \E i, j \in 1..Len(handed) : handed[i][1] # handed[j][1]


\* ========================================================================
\* 2. The I/O adapter (connection_read/send, connection_bufs_*, connection_close)
\* ========================================================================

\* descriptors the model hands to connection_init; 0 is a valid descriptor
ConnFds == {0, 4}

SendOps == {"send", "send_ssl", "bufs_send"}

\* what a transport call does when it accepts nothing: EAGAIN/EINTR or
\* SSL_ERROR_WANT_*, a non-recoverable failure, or (TLS) SSL_ERROR_ZERO_RETURN
PlainFails == {"again", "fatal"}
SslFails == {"again", "fatal", "zero"}

Min(a, b) == IF a < b THEN a ELSE b

\* connection_close's last two statements left out the sentinel
ZeroedConnection_NoSentinel ==
    [sock |-> 0, ssl |-> NULL, ip |-> NULL, error |-> 0, sent_bytes |-> 0]

\* memset (con, 0, sizeof (connection_t)); con->sock = SOCK_ERROR;
ZeroedConnection ==
    [sock |-> SOCK_ERROR, ssl |-> NULL, ip |-> NULL, error |-> 0, sent_bytes |-> 0]

NoOp == [op |-> "none", ret |-> 0, skip |-> 0]

\* the record of an adapter call: its name, what it returned (for
\* connection_close, which returns nothing: how many sockets it closed) and
\* the skip it was given
OpRec(op, ret, skip) == [op |-> op, ret |-> ret, skip |-> skip]

\* whether this call adds bytes to the wire of a connection already in error
Wrote(took) == wroteAfterError \/ (con.error = 1 /\ took > 0)

ConnInit ==
    /\ con = [sock |-> SOCK_ERROR, ssl |-> NULL, ip |-> NULL, error |-> 0,
              sent_bytes |-> 0]
    /\ bufs = [block |-> <<>>, total |-> 0]
    /\ sock_closes = [f \in ConnFds |-> 0]
    /\ wire = 0
    /\ wroteAfterError = FALSE
    /\ ioOp = NoOp

\* what the transport returns for a write of len bytes when it has room for cap
\* bytes: the bytes taken, or -1 (0 for "zero") when it takes none
TransportWrite(len, cap, fail) ==
    IF len = 0 THEN (IF fail = "zero" THEN 0 ELSE IF cap > 0 THEN 0 ELSE -1)
    ELSE IF cap > 0 THEN Min(len, cap)
    ELSE IF fail = "zero" THEN 0 ELSE -1

\* a successful connection_init on an accepted socket, with connection_uses_ssl
\* when the listener asks for TLS.  The model follows this one connection_t
\* from here to its close and through the calls made on it after that.
connection_open(fd, ssl) ==
    /\ ioOp.op = "none"
    /\ con.sock = SOCK_ERROR
    /\ con' = [sock |-> fd, ssl |-> ssl, ip |-> "ip", error |-> 0, sent_bytes |-> 0]
    /\ wire' = 0
    /\ wroteAfterError' = FALSE
    /\ ioOp' = OpRec("open", 0, 0)
    /\ UNCHANGED <<bufs, sock_closes>>
    /\ ConnFrame

\* the error flag after connection_send, clearing it when the write went through
send_error_recomputed(error, bytes, fail) ==
    IF bytes < 0 /\ fail = "fatal" THEN 1 ELSE 0

\* the error flag after connection_send: set on a non-recoverable failure
send_error(error, bytes, fail) ==
    IF bytes < 0 /\ fail = "fatal" THEN 1 ELSE error

\* connection_read: 0 bytes or a non-recoverable failure sets the error flag
ReadEffects(bytes, fail) ==
    /\ con.sock # SOCK_ERROR
    /\ con.ssl = NULL
    /\ con' = [con EXCEPT !.error =
                 IF bytes = 0 \/ (bytes = -1 /\ fail = "fatal") THEN 1 ELSE @]
    /\ ioOp' = OpRec("read", bytes, 0)
    /\ UNCHANGED <<bufs, sock_closes, wire, wroteAfterError>>

\* connection_read as a step of the adapter
connection_read(bytes, fail) ==
    /\ ReadEffects(bytes, fail)
    /\ ConnFrame

\* connection_read_ssl: SSL_ERROR_NONE / ZERO_RETURN return the byte count,
\* WANT_READ/WANT_WRITE return -1, anything else sets the flag and returns 0
ReadSslEffects(bytes, fail) ==
    /\ con.sock # SOCK_ERROR
    /\ con.ssl # NULL
    /\ LET code == IF bytes > 0 THEN "none" ELSE fail
           ret  == CASE code = "none"  -> bytes
                     [] code = "zero"  -> 0
                     [] code = "again" -> -1
                     [] OTHER          -> 0
       IN /\ con' = [con EXCEPT !.error = IF code = "fatal" THEN 1 ELSE @]
          /\ ioOp' = OpRec("read_ssl", ret, 0)
    /\ UNCHANGED <<bufs, sock_closes, wire, wroteAfterError>>

\* connection_read_ssl as a step of the adapter
connection_read_ssl(bytes, fail) ==
    /\ ReadSslEffects(bytes, fail)
    /\ ConnFrame

\* connection_send
SendEffects(len, cap, fail) ==
    /\ con.sock # SOCK_ERROR
    /\ con.ssl = NULL
    /\ LET bytes == TransportWrite(len, cap, fail)
           took  == IF bytes > 0 THEN bytes ELSE 0
       IN /\ wire + took <= MaxWire
          /\ con' = [con EXCEPT !.error = send_error(@, bytes, fail),
                                !.sent_bytes = IF bytes < 0 THEN @ ELSE @ + bytes]
          /\ wire' = wire + took
          /\ wroteAfterError' = Wrote(took)
          /\ ioOp' = OpRec("send", bytes, 0)
    /\ UNCHANGED <<bufs, sock_closes>>

\* connection_send as a step of the adapter
connection_send(len, cap, fail) ==
    /\ SendEffects(len, cap, fail)
    /\ ConnFrame

\* connection_send_ssl with SSL_ERROR_WANT_* taken as a failure
SendSsl_WantLatches(c, len, cap, fail) ==
    LET bytes == TransportWrite(len, cap, fail)
        code  == IF bytes > 0 THEN "none"
                 ELSE IF len = 0 /\ bytes = 0 /\ fail # "zero" THEN "none"
                 ELSE fail
    IN CASE code \in {"none", "zero"} ->
              [ret |-> bytes, error |-> c.error,
               sent_bytes |-> c.sent_bytes + bytes, took |-> bytes]
         [] OTHER ->
              [ret |-> -1, error |-> 1, sent_bytes |-> c.sent_bytes, took |-> 0]

\* the result of connection_send_ssl on a connection c:
\* [ret, error, sent_bytes, took]
SendSsl(c, len, cap, fail) ==
    LET bytes == TransportWrite(len, cap, fail)
        code  == IF bytes > 0 THEN "none"
                 ELSE IF len = 0 /\ bytes = 0 /\ fail # "zero" THEN "none"
                 ELSE fail
    IN CASE code \in {"none", "zero"} ->
              [ret |-> bytes, error |-> c.error,
               sent_bytes |-> c.sent_bytes + bytes, took |-> bytes]
         [] code = "again" ->
              [ret |-> -1, error |-> c.error, sent_bytes |-> c.sent_bytes, took |-> 0]
         [] OTHER ->
              [ret |-> -1, error |-> 1, sent_bytes |-> c.sent_bytes, took |-> 0]

\* connection_send_ssl
SendSslEffects(len, cap, fail) ==
    /\ con.sock # SOCK_ERROR
    /\ con.ssl # NULL
    /\ LET r == SendSsl(con, len, cap, fail)
       IN /\ wire + r.took <= MaxWire
          /\ con' = [con EXCEPT !.error = r.error, !.sent_bytes = r.sent_bytes]
          /\ wire' = wire + r.took
          /\ wroteAfterError' = Wrote(r.took)
          /\ ioOp' = OpRec("send_ssl", r.ret, 0)
    /\ UNCHANGED <<bufs, sock_closes>>

\* connection_send_ssl as a step of the adapter
connection_send_ssl(len, cap, fail) ==
    /\ SendSslEffects(len, cap, fail)
    /\ ConnFrame

\* connection_bufs_append (len <= 0xFFFFFF, else abort)
connection_bufs_append(len) ==
    /\ Len(bufs.block) < MaxVecs
    /\ bufs' = [block |-> Append(bufs.block, [base |-> bufs.total, len |-> len]),
                total |-> bufs.total + len]
    /\ ioOp' = OpRec("bufs_append", bufs.total + len, 0)
    /\ UNCHANGED <<con, sock_closes, wire, wroteAfterError>>
    /\ ConnFrame

\* connection_bufs_flush
connection_bufs_flush ==
    /\ bufs.block # <<>>
    /\ bufs' = [block |-> <<>>, total |-> 0]
    /\ ioOp' = OpRec("bufs_flush", 0, 0)
    /\ UNCHANGED <<con, sock_closes, wire, wroteAfterError>>
    /\ ConnFrame

\* connbufs_locate_start with "IO_VECTOR_LEN(p) -= offset" left out
LocateStart_LenKept(v, skip) ==
    LET sumBefore(i) == IF i = 1 THEN 0 ELSE v.block[i - 1].base + v.block[i - 1].len
        hits == {i \in 1..Len(v.block) : sumBefore(i) + v.block[i].len > skip}
    IN IF skip < v.total /\ hits # {}
       THEN LET i == CHOOSE h \in hits : \A g \in hits : h <= g
                offset == skip - sumBefore(i)
            IN [i |-> i, offset |-> offset,
                block |-> [v.block EXCEPT ![i] = [base |-> @.base + offset, len |-> @.len]]]
       ELSE [i |-> 0, offset |-> 0, block |-> v.block]

\* connbufs_locate_start: the first vector reaching past skip, spliced in place
\* to start at skip; i = 0 stands for the -1 of "no such vector".  The running
\* sum before vector i is its base, vectors being appended back to back.
LocateStart(v, skip) ==
    LET sumBefore(i) == IF i = 1 THEN 0 ELSE v.block[i - 1].base + v.block[i - 1].len
        hits == {i \in 1..Len(v.block) : sumBefore(i) + v.block[i].len > skip}
    IN IF skip < v.total /\ hits # {}
       THEN LET i == CHOOSE h \in hits : \A g \in hits : h <= g
                offset == skip - sumBefore(i)
            IN [i |-> i, offset |-> offset,
                block |-> [v.block EXCEPT ![i] =
                             [base |-> @.base + offset, len |-> @.len - offset]]]
       ELSE [i |-> 0, offset |-> 0, block |-> v.block]

RECURSIVE VecSum(_, _)
\* the byte count sock_writev is offered: the lengths of vectors i..count
VecSum(block, i) ==
    IF i > Len(block) THEN 0 ELSE block[i].len + VecSum(block, i + 1)

RECURSIVE SslLoop(_, _, _, _, _, _)
\* the TLS branch of connection_bufs_send: one connection_send_ssl per vector,
\* stopping at the first negative or short result.  c carries error and
\* sent_bytes; the result also holds bytes (the sum of positive results).
SslLoop(block, i, c, cap, fail, bytes) ==
    IF i > Len(block) THEN [c |-> c, bytes |-> bytes]
    ELSE LET r == SendSsl(c, block[i].len, cap, fail)
             c2 == [c EXCEPT !.error = r.error, !.sent_bytes = r.sent_bytes]
             b2 == IF r.ret > 0 THEN bytes + r.ret ELSE bytes
         IN IF r.ret < 0 \/ r.ret < block[i].len
            THEN [c |-> c2, bytes |-> b2]
            ELSE SslLoop(block, i + 1, c2, cap - r.took, fail, b2)

\* connection_bufs_send (skip > total aborts)
connection_bufs_send(skip, cap, fail) ==
    /\ con.sock # SOCK_ERROR
    /\ skip <= bufs.total
    /\ LET loc == LocateStart(bufs, skip)
       IN IF loc.i = 0
          THEN /\ ioOp' = OpRec("bufs_send", -1, skip)
               /\ UNCHANGED <<con, wire, wroteAfterError>>
          ELSE IF con.ssl = NULL
          THEN LET offered == VecSum(loc.block, loc.i)
                   ret == TransportWrite(offered, cap, fail)
                   took == IF ret > 0 THEN ret ELSE 0
               IN /\ wire + took <= MaxWire
                  /\ con' = [con EXCEPT
                               !.error = IF ret < 0 /\ fail = "fatal" THEN 1 ELSE @,
                               !.sent_bytes = IF ret > 0 THEN @ + ret ELSE @]
                  /\ wire' = wire + took
                  /\ wroteAfterError' = Wrote(took)
                  /\ ioOp' = OpRec("bufs_send", ret, skip)
          ELSE LET l == SslLoop(loc.block, loc.i, con, cap, fail, 0)
                   ret == IF l.bytes > 0 THEN l.bytes ELSE -1
               IN /\ wire + l.bytes <= MaxWire
                  /\ con' = [l.c EXCEPT
                               !.sent_bytes = IF ret > 0 THEN @ + ret ELSE @]
                  /\ wire' = wire + l.bytes
                  /\ wroteAfterError' = Wrote(l.bytes)
                  /\ ioOp' = OpRec("bufs_send", ret, skip)
    \* if (offset) *p = old_vals: the vectors are as they were
    /\ UNCHANGED <<bufs, sock_closes>>
    /\ ConnFrame

\* connection_close
connection_close ==
    /\ sock_closes' = IF con.sock # SOCK_ERROR
                      THEN [sock_closes EXCEPT ![con.sock] = @ + 1]
                      ELSE sock_closes
    /\ con' = ZeroedConnection
    /\ ioOp' = OpRec("close", IF con.sock # SOCK_ERROR THEN 1 ELSE 0, 0)
    /\ UNCHANGED <<bufs, wire, wroteAfterError>>
    /\ ConnFrame

NextConn ==
    \/ \E fd \in ConnFds, ssl \in {NULL, "ssl"} :
          /\ fd # 0
          /\ connection_open(fd, ssl)
    \/ \E bytes \in {-1, 0, 1}, fail \in PlainFails : connection_read(bytes, fail)
    \/ \E bytes \in {0, 1}, fail \in SslFails : connection_read_ssl(bytes, fail)
    \/ \E len \in 0..MaxVecLen, cap \in 0..(MaxWire - wire), fail \in PlainFails :
          /\ cap <= len
          /\ (cap > 0 => fail = "again")
          /\ connection_send(len, cap, fail)
    \/ \E len \in 0..MaxVecLen, cap \in 0..(MaxWire - wire), fail \in SslFails :
          /\ cap <= len
          /\ (cap > 0 /\ len > 0 => fail = "again")
          /\ connection_send_ssl(len, cap, fail)
    \/ \E len \in 0..MaxVecLen : connection_bufs_append(len)
    \/ connection_bufs_flush
    \/ \E skip \in 0..bufs.total, cap \in 0..(MaxWire - wire), fail \in SslFails :
          /\ cap <= bufs.total
          /\ (con.ssl = NULL => fail \in PlainFails /\ (cap > 0 => fail = "again"))
          /\ connection_bufs_send(skip, cap, fail)
    \/ connection_close

\* C2 as stated: once the error flag is set, a later connection_send,
\* connection_send_ssl or connection_bufs_send puts no byte on the wire, and
\* the flag stays set until the connection is closed.
C2_NoWriteAfterError ==
    [][con.error = 1 =>
         /\ (ioOp'.op \in SendOps => wire' = wire)
         /\ (ioOp'.op \notin {"open", "close"} => con'.error = 1)]_vars

\* C2 as amended: once the error flag is set it stays set until the connection
\* is closed; no read or send call clears it.  (The send calls do not test the
\* flag: they still hand their bytes to the transport.)
C2_ErrorLatched ==
    [][con.error = 1 /\ ioOp'.op \notin {"open", "close"} => con'.error = 1]_vars

\* C2 witness: a send call made with the flag set put bytes on the wire, and
\* the flag is still set.
C2_Witness ==
    /\ wroteAfterError
    /\ con.error = 1
    /\ ioOp.op \in SendOps

\* C6: whenever connection_bufs_send returns a positive count n for a skip
\* within the vectors, skip + n does not exceed the total length of the vectors.
C6_SkipPlusSentWithinTotal ==
    (ioOp.op = "bufs_send" /\ ioOp.ret > 0) => ioOp.skip + ioOp.ret <= bufs.total

\* C6 witness: on the TLS emulation, a send that started in the middle of a
\* vector and went on into the next one.
C6_Witness ==
    /\ ioOp.op = "bufs_send"
    /\ con.ssl # NULL
    /\ LocateStart(bufs, ioOp.skip).offset > 0
    /\ LET loc == LocateStart(bufs, ioOp.skip)
       IN ioOp.ret > loc.block[loc.i].len

\* C8: connection_close leaves the connection with the no-socket sentinel, no
\* ip and no TLS session; called on an open connection it closes that socket
\* once, called on a closed one it closes nothing and changes nothing.
C8_CloseIdempotent ==
    [][ioOp'.op = "close" =>
         /\ con'.sock = SOCK_ERROR /\ con'.ip = NULL /\ con'.ssl = NULL
         /\ (con.sock # SOCK_ERROR =>
               sock_closes' = [sock_closes EXCEPT ![con.sock] = @ + 1])
         /\ (con.sock = SOCK_ERROR => con' = con /\ sock_closes' = sock_closes)]_vars

\* C8 witness: a close of a connection that an earlier close had already
\* closed; its socket was closed once.
C8_Witness ==
    /\ ioOp.op = "close"
    /\ ioOp.ret = 0
    /\ con.sock = SOCK_ERROR
    /\ \E fd \in ConnFds : sock_closes[fd] = 1

\* C31: on an open connection the sent_bytes counter equals the number of
\* bytes the transport has accepted from connection_send,
\* connection_send_ssl and connection_bufs_send since the connection was set
\* up, with or without TLS.
C31_SentBytesIsBytesAccepted ==
    con.sock # SOCK_ERROR => con.sent_bytes = wire

\* the same for connections without TLS
C31_PlainSentBytesIsBytesAccepted ==
    (con.sock # SOCK_ERROR /\ con.ssl = NULL) => con.sent_bytes = wire

\* ========================================================================
\* 3. The listen-socket manager (connection_setup_sockets,
\*    connection_listen_sockets_close)
\* ========================================================================

\* the listeners a configuration may name: a port on either side of the
\* privileged boundary, bind_address absent (NULL), empty or an address
ListenerKinds ==
    <<[port |-> 1024, bind |-> NULL, shoutcast_compat |-> 1, ssl |-> 0],
      [port |-> 1023, bind |-> "a", shoutcast_compat |-> 0, ssl |-> 1],
      [port |-> 1023, bind |-> NULL, shoutcast_compat |-> 0, ssl |-> 0],
      [port |-> 1023, bind |-> "", shoutcast_compat |-> 0, ssl |-> 0]>>

\* listener_t objects are named by their place in the heap; 0 is no object
LIds == 1..(2 * MaxListeners)
FreeObj == [port |-> 0, bind |-> NULL, shoutcast_compat |-> 0, ssl |-> 0, refcount |-> 0]

\* an array slot that was allocated and never written
JunkSock == -2
JunkConn == 0

\* descriptors the kernel hands out, lowest free first
ListenFds == 3..(3 + 2 * MaxListeners)

\* the record of a manager call: its arguments, and n, the number of
\* sockets it closed or opened
ListenOp(op, all, cfgNull, n) == [op |-> op, all |-> all, cfgNull |-> cfgNull, n |-> n]

ListenInit ==
    /\ serversock = <<>>
    /\ server_conn = <<>>
    /\ server_sockets = 0
    /\ config = [listen_sock |-> <<>>, listen_sock_count |-> 0]
    /\ heap = [l \in LIds |-> FreeObj]
    /\ os = {}
    /\ listen_oob = FALSE
    /\ listenOp = ListenOp("none", 0, FALSE, 0)

OpenFds(o) == {s.fd : s \in o}

\* sock_close on a listening descriptor
SockClose(o, fd) == {s \in o : s.fd # fd}

\* config_clear_listener: drop one reference, free the object with the last
ClearListener(h, l) ==
    IF h[l].refcount <= 1 THEN [h EXCEPT ![l] = FreeObj]
    ELSE [h EXCEPT ![l].refcount = @ - 1]

\* listener->bind_address ? listener->bind_address : ""  (here and below)
BindOrEmpty(b) == IF b = NULL THEN "" ELSE b

\* the port test of connection_listen_sockets_close, off by one
Privileged_Inclusive(port) == port <= 1024

\* "global.server_conn [old]->port < 1024"
Privileged(port) == port < 1024

\* strcmp (new_bind, old_bind) == 0
SameBind(a, b) == BindOrEmpty(a) = BindOrEmpty(b)

\* the while loop over config->listen_sock: some listener of the configuration
\* has the port and the bind address of object l
StillConfigured(cfg, h, l) ==
    \E k \in 1..Len(cfg.listen_sock) :
        /\ h[cfg.listen_sock[k]].port = h[l].port
        /\ SameBind(h[cfg.listen_sock[k]].bind, h[l].bind)

RECURSIVE CloseLoop(_, _, _, _, _, _)
\* the for loop of connection_listen_sockets_close over old = 0 .. cur-1
\* (indices are 1-based here); st holds sock, conn, n (global.server_sockets),
\* h (the heap) and o (the kernel's sockets)
CloseLoop(old, new, cur, st, cfgNull, all) ==
    IF old > cur THEN st
    ELSE LET l == st.conn[old]
         IN IF ~cfgNull /\ all = 0 /\ Privileged(st.h[l].port)
               /\ StillConfigured(config, st.h, l)
            THEN CloseLoop(old + 1, new + 1, cur,
                           IF new < old
                           THEN [st EXCEPT !.conn[new] = st.conn[old],
                                           !.sock[new] = st.sock[old]]
                           ELSE st,
                           cfgNull, all)
            ELSE CloseLoop(old + 1, new, cur,
                           [st EXCEPT !.o = SockClose(@, st.sock[old]),
                                      !.sock[old] = SOCK_ERROR,
                                      !.h = ClearListener(@, l),
                                      !.n = @ - 1],
                           cfgNull, all)

\* connection_listen_sockets_close (config, all_sockets)
connection_listen_sockets_close(cfgNull, all) ==
    /\ IF serversock = <<>>
       THEN /\ listenOp' = ListenOp("close", all, cfgNull, 0)
            /\ UNCHANGED <<serversock, server_conn, server_sockets, heap, os>>
       ELSE LET st == CloseLoop(1, 1, server_sockets,
                                [sock |-> serversock, conn |-> server_conn,
                                 n |-> server_sockets, h |-> heap, o |-> os],
                                cfgNull, all)
            IN /\ listenOp' = ListenOp("close", all, cfgNull, server_sockets - st.n)
               /\ server_sockets' = st.n
               /\ serversock' = IF st.n = 0 THEN <<>> ELSE st.sock
               /\ server_conn' = IF st.n = 0 THEN <<>> ELSE st.conn
               /\ heap' = st.h
               /\ os' = st.o
    /\ UNCHANGED <<config, listen_oob>>
    /\ ListenFrame

\* realloc (array, n * size): the first entries kept, new ones unwritten
Realloc(arr, n, junk) ==
    [i \in 1..n |-> IF i <= Len(arr) THEN arr[i] ELSE junk]

\* whether the kernel refuses to bind port/bind because a listening socket
\* already holds that port on the same or on the wildcard address
Conflicts(o, port, bind) ==
    \E s \in o : /\ s.port = port
                 /\ \/ BindOrEmpty(s.bind) = BindOrEmpty(bind)
                    \/ BindOrEmpty(s.bind) = ""
                    \/ BindOrEmpty(bind) = ""

NewFd(o) == CHOOSE f \in ListenFds \ OpenFds(o) :
                \A g \in ListenFds \ OpenFds(o) : f <= g

RECURSIVE SetupLoop_KeepsFailed(_, _, _, _)
\* the loop with a listener that failed left in the configuration
SetupLoop_KeepsFailed(j, i, st, luck) ==
    IF i > Len(st.list) \/ st.count > config.listen_sock_count THEN st
    ELSE LET l == st.list[i]
             refused == Conflicts(st.o, st.h[l].port, st.h[l].bind)
             got == IF refused THEN "nosocket" ELSE luck[j]
         IN IF got = "ok"
            THEN LET fd == NewFd(st.o)
                     inside == st.count + 1 <= Len(st.sock)
                 IN SetupLoop_KeepsFailed(j + 1, i + 1,
                      [st EXCEPT
                         !.o = @ \cup {[fd |-> fd, port |-> st.h[l].port,
                                        bind |-> st.h[l].bind]},
                         !.sock = IF inside THEN [@ EXCEPT ![st.count + 1] = fd] ELSE @,
                         !.conn = IF inside THEN [@ EXCEPT ![st.count + 1] = l] ELSE @,
                         !.oob = @ \/ ~inside,
                         !.h = [@ EXCEPT ![l].refcount = @ + 1],
                         !.count = @ + 1],
                      luck)
            ELSE SetupLoop_KeepsFailed(j + 1, i + 1, st, luck)

RECURSIVE SetupLoop(_, _, _, _)
\* the while loop of connection_setup_sockets; j counts the iterations, i is
\* the place of "listener" in the list, luck[j] what sock_get_server_socket
\* and sock_listen do in iteration j when the kernel has no reason to refuse
SetupLoop(j, i, st, luck) ==
    IF i > Len(st.list) \/ st.count > config.listen_sock_count THEN st
    ELSE LET l == st.list[i]
             refused == Conflicts(st.o, st.h[l].port, st.h[l].bind)
             got == IF refused THEN "nosocket" ELSE luck[j]
         IN IF got = "ok"
            THEN LET fd == NewFd(st.o)
                     inside == st.count + 1 <= Len(st.sock)
                 IN SetupLoop(j + 1, i + 1,
                      [st EXCEPT
                         !.o = @ \cup {[fd |-> fd, port |-> st.h[l].port,
                                        bind |-> st.h[l].bind]},
                         !.sock = IF inside THEN [@ EXCEPT ![st.count + 1] = fd] ELSE @,
                         !.conn = IF inside THEN [@ EXCEPT ![st.count + 1] = l] ELSE @,
                         !.oob = @ \/ ~inside,
                         !.h = [@ EXCEPT ![l].refcount = @ + 1],
                         !.count = @ + 1],
                      luck)
            ELSE \* sock_listen failed: the socket made is closed again; either
                 \* way *prev = config_clear_listener (listener)
                 SetupLoop(j + 1, i,
                      [st EXCEPT
                         !.h = ClearListener(@, l),
                         !.list = SubSeq(@, 1, i - 1) \o SubSeq(@, i + 1, Len(@))],
                      luck)

\* what connection_setup_sockets (config) does to the arrays, the
\* configuration and the kernel's sockets
SetupSockets(luck) ==
    /\ IF server_sockets >= config.listen_sock_count
       THEN /\ listenOp' = ListenOp("setup", 0, FALSE, 0)
            /\ UNCHANGED <<serversock, server_conn, server_sockets, config, heap,
                           os, listen_oob>>
       ELSE LET st == SetupLoop(1, 1,
                        [list |-> config.listen_sock,
                         sock |-> Realloc(serversock, config.listen_sock_count, JunkSock),
                         conn |-> Realloc(server_conn, config.listen_sock_count, JunkConn),
                         count |-> server_sockets, h |-> heap, o |-> os,
                         oob |-> listen_oob],
                        luck)
            IN /\ listenOp' = ListenOp("setup", 0, FALSE, st.count - server_sockets)
               /\ serversock' = st.sock
               /\ server_conn' = st.conn
               /\ server_sockets' = st.count
               /\ config' = [config EXCEPT !.listen_sock = st.list]
               /\ heap' = st.h
               /\ os' = st.o
               /\ listen_oob' = st.oob

\* connection_setup_sockets (config)
connection_setup_sockets(luck) ==
    /\ SetupSockets(luck)
    /\ ListenFrame

RECURSIVE ClearAll(_, _, _)
\* config_clear_listener on every listener of a configuration being dropped
ClearAll(h, list, k) ==
    IF k > Len(list) THEN h ELSE ClearAll(ClearListener(h, list[k]), list, k + 1)

RECURSIVE Allocate(_, _, _)
\* the listener_t objects of a newly parsed configuration, each with the one
\* reference the configuration holds: [h, list]
Allocate(h, list, kinds) ==
    IF kinds = <<>> THEN [h |-> h, list |-> list]
    ELSE LET free == {l \in LIds : h[l].refcount = 0}
             l == CHOOSE f \in free : \A g \in free : f <= g
         IN Allocate([h EXCEPT ![l] = [port |-> kinds[1].port, bind |-> kinds[1].bind,
                                       shoutcast_compat |-> kinds[1].shoutcast_compat,
                                       ssl |-> kinds[1].ssl,
                                       refcount |-> 1]],
                     Append(list, l), Tail(kinds))

\* a configuration is loaded (at start or on a reread): the old one is
\* cleared, the new one takes its place
config_reload(kinds) ==
    /\ LET h1 == ClearAll(heap, config.listen_sock, 1)
       IN /\ Cardinality({l \in LIds : h1[l].refcount = 0}) >= Len(kinds)
          /\ LET a == Allocate(h1, <<>>, kinds)
             IN /\ heap' = a.h
                /\ config' = [listen_sock |-> a.list, listen_sock_count |-> Len(kinds)]
    /\ listenOp' = ListenOp("reload", 0, FALSE, 0)
    /\ UNCHANGED <<serversock, server_conn, server_sockets, os, listen_oob>>
    /\ ListenFrame

\* the configurations loaded: every choice of up to MaxListeners listeners,
\* each choice listed in one order
Configs ==
    {[i \in 1..Len(c) |-> ListenerKinds[c[i]]] :
        c \in {d \in UNION {[1..n -> DOMAIN ListenerKinds] : n \in 0..MaxListeners} :
                 \A i, j \in 1..Len(d) : i < j => d[i] <= d[j]}}

\* what the kernel does when it has no conflict to report; a refusal for
\* another reason leaves what a failed sock_listen leaves
Lucks == [1..MaxListeners -> {"ok", "nolisten"}]

NextListen ==
    \/ \E kinds \in Configs : config_reload(kinds)
    \/ \E luck \in Lucks : connection_setup_sockets(luck)
    \/ \E cfgNull \in BOOLEAN, all \in {0, 1} :
          connection_listen_sockets_close(cfgNull, all)

\* whether a call of connection_listen_sockets_close with the arguments in
\* op is to leave entry i of the arrays open: the port is below 1024 and the
\* configuration names a listener with that port and that bind address, an
\* absent address and the empty one being the same
C3_Stays(op, i) ==
    /\ ~op.cfgNull
    /\ op.all = 0
    /\ heap[server_conn[i]].port < 1024
    /\ \E k \in 1..Len(config.listen_sock) :
          LET new == heap[config.listen_sock[k]]
              old == heap[server_conn[i]]
          IN /\ new.port = old.port
             /\ \/ new.bind = old.bind
                \/ new.bind \in {NULL, ""} /\ old.bind \in {NULL, ""}

\* C3: connection_listen_sockets_close (config, 0) keeps a listening socket
\* open, with its profile, exactly when its port is below 1024 and config
\* still has a listener with the same port and bind address (absent equal to
\* empty); every other socket is closed and its profile released; with
\* all_sockets = 1 or a NULL config every socket is closed.  The sockets kept
\* stay in their order at the front of the arrays.
C3_ClosePreservesPrivileged ==
    [][listenOp'.op = "close" =>
        LET stay == {i \in 1..server_sockets : C3_Stays(listenOp', i)}
            go == (1..server_sockets) \ stay
        IN /\ server_sockets' = Cardinality(stay)
           /\ \A i \in stay :
                 LET j == Cardinality({k \in stay : k <= i})
                 IN /\ serversock'[j] = serversock[i]
                    /\ server_conn'[j] = server_conn[i]
                    /\ serversock[i] \in OpenFds(os')
                    /\ {s \in os' : s.fd = serversock[i]} = {s \in os : s.fd = serversock[i]}
                    /\ heap'[server_conn[i]] = heap[server_conn[i]]
           /\ \A i \in go :
                 /\ serversock[i] \notin OpenFds(os')
                 /\ heap'[server_conn[i]].refcount = heap[server_conn[i]].refcount - 1
           /\ (listenOp'.all = 1 \/ listenOp'.cfgNull) => os' = {} /\ server_sockets' = 0
    ]_vars

\* a close with all_sockets = 0 has just closed one socket and kept another,
\* which it moved to the front; the socket kept was bound with no
\* bind_address and the configuration names its port with the empty one
C3_Witness ==
    /\ listenOp.op = "close" /\ listenOp.all = 0 /\ ~listenOp.cfgNull
    /\ listenOp.n >= 1
    /\ server_sockets = 1
    /\ serversock[1] = 4
    /\ heap[server_conn[1]].bind = NULL
    /\ \E k \in 1..Len(config.listen_sock) : heap[config.listen_sock[k]].bind = ""
    /\ \A k \in 1..Len(config.listen_sock) : heap[config.listen_sock[k]].bind # NULL

\* the arrays' valid entries are open sockets with live profiles
ListenSane ==
    /\ server_sockets <= Len(serversock)
    /\ \A i \in 1..server_sockets :
          /\ serversock[i] \in OpenFds(os)
          /\ server_conn[i] \in LIds
          /\ heap[server_conn[i]].refcount >= 1

\* whether listener k of configuration cfg is the one array entry l was
\* bound for: the same port and bind address
C24_Names(cfg, h, k, l) ==
    /\ h[cfg.listen_sock[k]].port = h[l].port
    /\ SameBind(h[cfg.listen_sock[k]].bind, h[l].bind)

\* C24: connection_setup_sockets binds only the configured listeners that
\* are not bound yet: called after close (config, 0), a listener that close
\* left in the arrays (a privileged one the new configuration still names)
\* keeps its socket and stays in config, and afterwards the arrays hold
\* exactly one entry for each configured listener.
C24_SetupSkipsBoundListeners ==
    [][(/\ listenOp.op = "close" /\ listenOp.all = 0 /\ ~listenOp.cfgNull
        /\ listenOp'.op = "setup" /\ ~listen_oob /\ ListenSane) =>
         /\ \A i \in 1..server_sockets :
               \A k \in 1..Len(config.listen_sock) :
                  C24_Names(config, heap, k, server_conn[i]) =>
                     /\ serversock'[i] = serversock[i]
                     /\ \E k2 \in 1..Len(config'.listen_sock) :
                           C24_Names(config', heap', k2, server_conn[i])
         /\ \A k \in 1..Len(config'.listen_sock) :
               Cardinality({i \in 1..server_sockets' :
                               C24_Names(config', heap', k, server_conn'[i])}) = 1]_vars

\* the array entries a call of connection_setup_sockets registered
C25_Registered == (server_sockets + 1)..server_sockets'

\* the listeners of config that the call removed: creating or listening on
\* their socket failed
C25_Failed ==
    {k \in 1..Len(config.listen_sock) :
        \A k2 \in 1..Len(config'.listen_sock) :
           config'.listen_sock[k2] # config.listen_sock[k]}

\* C25: when creating or listening on the socket of a configured listener
\* fails during connection_setup_sockets, that listener is removed from
\* config and the others stay, in their order; no array entry is registered
\* for it and no descriptor is left open for it; every other configured
\* listener is attempted and registered with a descriptor and its profile;
\* and the count returned (the value stored to global.server_sockets) is the
\* number of sockets registered in the arrays.  (A call that finds
\* global.server_sockets at listen_sock_count or above attempts nothing.)
C25_FailedListenerAloneRemoved ==
    [][(/\ listenOp'.op = "setup" /\ ~listen_oob /\ ListenSane
        /\ server_sockets < config.listen_sock_count) =>
         /\ config'.listen_sock =
               SelectSeq(config.listen_sock,
                         LAMBDA l : \E i \in C25_Registered : server_conn'[i] = l)
         /\ \A k \in C25_Failed :
               /\ \A i \in C25_Registered : server_conn'[i] # config.listen_sock[k]
               /\ heap'[config.listen_sock[k]].refcount =
                     heap[config.listen_sock[k]].refcount - 1
         /\ \A l \in {config'.listen_sock[k] : k \in 1..Len(config'.listen_sock)} :
               /\ Cardinality({i \in C25_Registered : server_conn'[i] = l}) = 1
               /\ heap'[l].refcount = heap[l].refcount + 1
         /\ OpenFds(os') = OpenFds(os) \cup {serversock'[i] : i \in C25_Registered}
         /\ Cardinality(os') = Cardinality(os) + Cardinality(C25_Registered)
         /\ \A i \in 1..server_sockets : /\ serversock'[i] = serversock[i]
                                          /\ server_conn'[i] = server_conn[i]
         /\ server_sockets' = Cardinality({serversock'[i] : i \in 1..server_sockets'})
         /\ {serversock'[i] : i \in 1..server_sockets'} = OpenFds(os')
         /\ listenOp'.n = Cardinality(C25_Registered)
         /\ ~listen_oob']_vars

\* C25 witness: of two configured listeners one failed and was removed, the
\* other was bound and registered, and one socket is open
C25_Witness ==
    /\ listenOp.op = "setup" /\ listenOp.n = 1
    /\ config.listen_sock_count = 2 /\ Len(config.listen_sock) = 1
    /\ server_sockets = 1
    /\ server_conn[1] = config.listen_sock[1]
    /\ OpenFds(os) = {serversock[1]}
    /\ heap[server_conn[1]].port = 1024

\* configurations with listeners on two addresses of a port below 1024
CapacityKinds ==
    <<[port |-> 1023, bind |-> "a", shoutcast_compat |-> 0, ssl |-> 0],
      [port |-> 1023, bind |-> "b", shoutcast_compat |-> 0, ssl |-> 0],
      [port |-> 1024, bind |-> NULL, shoutcast_compat |-> 1, ssl |-> 0]>>

CapacityConfigs ==
    {[i \in 1..Len(c) |-> CapacityKinds[c[i]]] :
        c \in {d \in UNION {[1..n -> DOMAIN CapacityKinds] : n \in 0..MaxListeners} :
                 \A i, j \in 1..Len(d) : i < j => d[i] < d[j]}}

\* the listen-socket manager with these configurations, no store past the
\* end of the arrays having happened
NextCapacity ==
    \/ \E kinds \in CapacityConfigs : ~listen_oob /\ config_reload(kinds)
    \/ \E luck \in Lucks : ~listen_oob /\ connection_setup_sockets(luck)
    \/ \E cfgNull \in BOOLEAN, all \in {0, 1} :
          ~listen_oob /\ connection_listen_sockets_close(cfgNull, all)

\* C32: a call of connection_setup_sockets stores no socket and no profile
\* at a place at or past config->listen_sock_count, the length it gave both
\* arrays, whatever the configuration and however many sockets are open from
\* an earlier one.
C32_SetupStoresWithinCapacity ==
    [][(listenOp'.op = "setup" /\ ~listen_oob) => ~listen_oob']_vars

\* ========================================================================
\* 4. The IP access cache (add_banned_ip, connection_add_banned_ip,
\*    connection_release_banned_ip, search_banned_ip_locked,
\*    accept_ip_address)
\* ========================================================================

\* IP texts, as the bytes of their characters: "1", and an IPv6 literal of
\* 17 characters, "2001:db8::1:2:3:4"
Ip1 == <<49>>
Ip6 == <<50, 48, 48, 49, 58, 100, 98, 56, 58, 58, 49, 58, 50, 58, 51, 58, 52>>
\* the pattern "1*"
Pat1 == <<49, 42>>
PeerIps == {Ip1, Ip6}
BanTexts == PeerIps \cup {Pat1}

Durations == {-1, 0, 1, 301}
TickSteps == {1, 61, 299}

\* sizeof (banned->ip), "char ip[16]"
IP_SIZE == 16
\* the grace added by a lookup that finds a live entry
SOFT_RENEWAL == 300
\* how long an entry must have been expired before a traversal marks it
REMOVAL_AGE == 60

NoBorn == [c |-> -1, d |-> 0]
\* the record of a cache call: its argument, what the ban search returned,
\* the instant of the previous matching lookup of that IP, and what
\* accept_ip_address returned
BanOp(op, ip, ret, prev, acc) ==
    [op |-> op, ip |-> ip, ret |-> ret, prev |-> prev, acc |-> acc]

BanInit ==
    /\ banned_ip = [active |-> FALSE, contents |-> {}, wildcards |-> <<>>]
    /\ allowed_ip = <<>>
    /\ now = 0
    /\ ticks = 0
    /\ cachefile_timecheck = 0
    /\ born = NoBorn
    /\ lastHit = -1
    /\ banOp = BanOp("none", <<>>, 0, -1, 0)

\* ip [strcspn (ip, "*?[")]: the text has one of * ? [
HasWildcard(ip) == \E i \in 1..Len(ip) : ip[i] \in {42, 63, 91}

\* snprintf (&banned->ip[0], sizeof (banned->ip), "%s", ip)
SnprintfIp(ip) == SubSeq(ip, 1, IF Len(ip) < IP_SIZE - 1 THEN Len(ip) ELSE IP_SIZE - 1)

RECURSIVE Glob(_, _)
\* cached_pattern_compare: glob match of text s against pattern p, with *
\* and ? as the special characters
Glob(s, p) ==
    IF p = <<>> THEN s = <<>>
    ELSE IF p[1] = 42 THEN Glob(s, Tail(p)) \/ (s # <<>> /\ Glob(Tail(s), p))
    ELSE s # <<>> /\ (p[1] = 63 \/ p[1] = s[1]) /\ Glob(Tail(s), Tail(p))

\* avl_delete (contents, key, ...): the entry with that key leaves the set
AvlDelete(contents, key) == {e \in contents : e.ip # key}

\* avl_insert (contents, banned): the map has one entry per key
AvlInsert(contents, e) == AvlDelete(contents, e.ip) \cup {e}

\* add_banned_ip (c, e, now)
add_banned_ip(c, ip, timeout) ==
    IF HasWildcard(ip)
    THEN [c EXCEPT !.wildcards = <<ip>> \o @]
    ELSE [c EXCEPT !.contents = AvlInsert(@, [ip |-> SnprintfIp(ip), timeout |-> timeout])]

\* "if (duration > 0) timeout = time(NULL) + duration", else 0
BanTimeout(t, duration) == IF duration > 0 THEN t + duration ELSE 0

\* connection_add_banned_ip (ip, duration); a pattern is given once, a
\* second copy in the list changes no lookup
connection_add_banned_ip(ip, duration) ==
    /\ HasWildcard(ip) => \A k \in 1..Len(banned_ip.wildcards) : banned_ip.wildcards[k] # ip
    /\ banned_ip' = IF banned_ip.active
                    THEN add_banned_ip(banned_ip, ip, BanTimeout(now, duration))
                    ELSE banned_ip
    /\ banOp' = BanOp("add", ip, duration, -1, 0)
    /\ IF ip = Ip1
       THEN /\ born' = IF duration > 0 /\ banned_ip.active
                       THEN [c |-> now, d |-> duration] ELSE NoBorn
            /\ lastHit' = -1
       ELSE UNCHANGED <<born, lastHit>>
    /\ UNCHANGED <<allowed_ip, now, ticks, cachefile_timecheck>>
    /\ BanFrame

\* connection_release_banned_ip (ip)
connection_release_banned_ip(ip) ==
    /\ banned_ip' = IF banned_ip.active
                    THEN [banned_ip EXCEPT !.contents = AvlDelete(@, ip)]
                    ELSE banned_ip
    /\ banOp' = BanOp("release", ip, 0, -1, 0)
    /\ IF ip = Ip1
       THEN born' = NoBorn /\ lastHit' = -1
       ELSE UNCHANGED <<born, lastHit>>
    /\ UNCHANGED <<allowed_ip, now, ticks, cachefile_timecheck>>
    /\ BanFrame

\* the keys of the literal entries
Keys(contents) == {e.ip : e \in contents}

\* the test for a possible removal without the grace of REMOVAL_AGE
Removable_AtExpiry(e, ip, t) == e.ip # ip /\ e.timeout # 0 /\ e.timeout < t

\* the liveness test of a literal entry, with the expiry instant counted in
Live_Inclusive(timeout, t) == timeout = 0 \/ timeout >= t

\* "match->a.timeout == 0 || match->a.timeout > cachefile_timecheck"
Live(timeout, t) == timeout = 0 \/ timeout > t

\* compare_banned_ip's test for a possible removal: a timed entry other than
\* the one sought, expired for more than REMOVAL_AGE
Removable(e, ip, t) == e.ip # ip /\ e.timeout # 0 /\ e.timeout < t - REMOVAL_AGE

NoVictim == <<>>

\* the delete of ban_entry_removal after a search that found no live entry
RemoveMarked(contents, victim) ==
    IF victim = NoVictim THEN contents ELSE AvlDelete(contents, victim)

\* search_banned_ip_locked (ip) at cachefile_timecheck = t; victim is the
\* entry the traversal marked, if any: [c, ret]
search_banned_ip_locked(c, ip, t, victim) ==
    IF \E k \in 1..Len(c.wildcards) : Glob(ip, c.wildcards[k])
    THEN [c |-> c, ret |-> 1]
    ELSE IF ~c.active THEN [c |-> c, ret |-> 0]
    ELSE IF \E e \in c.contents : e.ip = ip
    THEN LET match == CHOOSE e \in c.contents : e.ip = ip
         IN IF Live(match.timeout, t)
            THEN [c |-> IF match.timeout # 0 /\ t + SOFT_RENEWAL > match.timeout
                        THEN [c EXCEPT !.contents =
                                 AvlInsert(@, [ip |-> ip, timeout |-> t + SOFT_RENEWAL])]
                        ELSE c,
                  ret |-> 1]
            ELSE [c |-> [c EXCEPT !.contents = RemoveMarked(AvlDelete(@, ip), victim)],
                  ret |-> 0]
    ELSE [c |-> [c EXCEPT !.contents = RemoveMarked(@, victim)], ret |-> 0]

\* cached_pattern_search (&allowed_ip, ip, t): -1 without data, else whether
\* a line of the allow list matches
cached_pattern_search(allowed, ip) ==
    IF allowed = <<>> THEN -1
    ELSE IF \E k \in 1..Len(allowed) : Glob(ip, allowed[k]) THEN 1 ELSE 0

\* accept_ip_address with every address let through
AcceptIp_AllowAll(ip, victim) ==
    LET r == search_banned_ip_locked(banned_ip, ip, now, victim)
    IN [c |-> r.c, banned |-> r.ret, ret |-> 1]

\* accept_ip_address with the allow list consulted first: an address the
\* allow list matches is let through without the ban search deciding
AcceptIp_AllowFirst(ip, victim) ==
    LET r == search_banned_ip_locked(banned_ip, ip, now, victim)
    IN [c |-> r.c, banned |-> r.ret,
        ret |-> IF cached_pattern_search(allowed_ip, ip) = 1 THEN 1
                ELSE IF r.ret > 0 THEN 0
                ELSE IF cached_pattern_search(allowed_ip, ip) = 0 THEN 0
                ELSE 1]

\* accept_ip_address (ip): the cache after the search, what the search
\* returned, and the return value
AcceptIp(ip, victim) ==
    LET r == search_banned_ip_locked(banned_ip, ip, now, victim)
    IN [c |-> r.c, banned |-> r.ret,
        ret |-> IF r.ret > 0 THEN 0
                ELSE IF cached_pattern_search(allowed_ip, ip) = 0 THEN 0
                ELSE 1]

\* what a call of accept_ip_address (ip) does to the cache and its clock
AcceptIpEffects(ip, victim) ==
    /\ \/ victim = NoVictim
       \/ \E e \in banned_ip.contents : e.ip = victim /\ Removable(e, ip, now)
    /\ cachefile_timecheck' = now
    /\ LET r == AcceptIp(ip, victim)
       IN /\ banned_ip' = r.c
          /\ banOp' = BanOp("lookup", ip, r.banned, IF ip = Ip1 THEN lastHit ELSE -1,
                            r.ret)
          /\ lastHit' = IF r.banned = 1 /\ ip = Ip1 THEN now ELSE lastHit
          /\ evicted' = {e \in banned_ip.contents : e.ip \notin Keys(r.c.contents)}
    /\ UNCHANGED <<allowed_ip, now, ticks, born>>

\* accept_ip_address (ip)
accept_ip_address(ip, victim) ==
    /\ AcceptIpEffects(ip, victim)
    /\ UNCHANGED <<idVars, connVars, listenVars, clientVars, initVars, acceptVars,
                   handlerVars, ioVars, miscVars, kernelVars, joinVars>>

\* the ban file is configured: the cache gets its (empty) literal set
banned_ip_load ==
    /\ ~banned_ip.active
    /\ banned_ip' = [banned_ip EXCEPT !.active = TRUE]
    /\ banOp' = BanOp("load", <<>>, 0, -1, 0)
    /\ UNCHANGED <<allowed_ip, now, ticks, cachefile_timecheck, born, lastHit>>
    /\ BanFrame

AllowLists == {<<>>, <<Pat1>>}

\* the allow file is (re)read
allowed_ip_load(lines) ==
    /\ allowed_ip # lines
    /\ allowed_ip' = lines
    /\ banOp' = BanOp("allow", <<>>, 0, -1, 0)
    /\ UNCHANGED <<banned_ip, now, ticks, cachefile_timecheck, born, lastHit>>
    /\ BanFrame

\* time passes
Tick(dt) ==
    /\ ticks < MaxTicks
    /\ now' = now + dt
    /\ ticks' = ticks + 1
    /\ banOp' = BanOp("tick", <<>>, 0, -1, 0)
    /\ UNCHANGED <<banned_ip, allowed_ip, cachefile_timecheck, born, lastHit>>
    /\ BanFrame

NextBan ==
    \/ banned_ip_load
    \/ \E lines \in AllowLists : allowed_ip_load(lines)
    \/ \E ip \in BanTexts, d \in Durations : connection_add_banned_ip(ip, d)
    \/ \E ip \in PeerIps : connection_release_banned_ip(ip)
    \/ \E ip \in PeerIps, victim \in {SnprintfIp(v) : v \in PeerIps} \cup {NoVictim} :
          accept_ip_address(ip, victim)
    \/ \E dt \in TickSteps : Tick(dt)

\* ip matches the banned set at instant t: a pattern of the ban list matches
\* it, or the literal set holds an entry for it that is permanent or has not
\* expired
C36_Banned(ip, t) ==
    \/ \E k \in 1..Len(banned_ip.wildcards) : Glob(ip, banned_ip.wildcards[k])
    \/ /\ banned_ip.active
       /\ \E e \in banned_ip.contents : e.ip = ip /\ (e.timeout = 0 \/ e.timeout > t)

\* a line of the allow list matches ip
C36_Allowed(ip) == \E k \in 1..Len(allowed_ip) : Glob(ip, allowed_ip[k])

\* C36: accept_ip_address refuses an IP that matches the banned set, whether
\* or not the allow list matches it too; it refuses an IP that does not match
\* the banned set exactly when the allow list has data and no line of it
\* matches; it accepts in every other case.
C36_BanBeforeAllow ==
    [][banOp'.op = "lookup"
       => banOp'.acc = IF C36_Banned(banOp'.ip, now) THEN 0
                       ELSE IF allowed_ip # <<>> /\ ~C36_Allowed(banOp'.ip) THEN 0
                       ELSE 1]_vars

\* C36 witness: an IP with a live literal ban entry that the allow list
\* matches was looked up and refused
C36_Witness ==
    /\ banOp.op = "lookup" /\ banOp.ip = Ip1
    /\ banOp.ret = 1 /\ banOp.acc = 0
    /\ C36_Allowed(Ip1)
    /\ \A k \in 1..Len(banned_ip.wildcards) : ~Glob(Ip1, banned_ip.wildcards[k])

\* whether some pattern of the ban list matches Ip1
Ip1Patterned == \E k \in 1..Len(banned_ip.wildcards) : Glob(Ip1, banned_ip.wildcards[k])

C5_AddThenLookupMatches ==
    [][(banned_ip.active /\ banOp.op = "add" /\ ~HasWildcard(banOp.ip)
        /\ banOp'.op = "lookup" /\ banOp'.ip = banOp.ip) => banOp'.ret = 1]_vars

\* the same for the IPs whose text fits the entry's ip field
C5_ShortIpAddThenLookupMatches ==
    [][(banned_ip.active /\ banOp.op = "add" /\ ~HasWildcard(banOp.ip)
        /\ Len(banOp.ip) < IP_SIZE
        /\ banOp'.op = "lookup" /\ banOp'.ip = banOp.ip) => banOp'.ret = 1]_vars

\* the entries of the cache whose key the step takes out of it
C28_Removed == {e \in banned_ip.contents : e.ip \notin Keys(banned_ip'.contents)}

\* C28: one lookup removes at most one entry other than the one looked up,
\* and only one whose timeout is set and more than 60 seconds before the
\* time of the lookup; it removes the entry looked up only when that entry's
\* timeout is set and has been reached; so no permanent entry and no entry
\* with its timeout still ahead is removed; and a lookup that reports a match
\* removes nothing.
C28_LookupEvictsExpiredOnly ==
    [][banOp'.op = "lookup"
       => /\ Cardinality({e \in C28_Removed : e.ip # banOp'.ip}) <= 1
          /\ \A e \in C28_Removed :
                /\ e.timeout # 0
                /\ e.timeout <= cachefile_timecheck'
                /\ e.ip # banOp'.ip => e.timeout < cachefile_timecheck' - REMOVAL_AGE
          /\ banOp'.ret = 1 => C28_Removed = {}
          /\ banned_ip'.contents \subseteq
                banned_ip.contents \cup {[ip |-> banOp'.ip,
                                          timeout |-> cachefile_timecheck' + SOFT_RENEWAL]}]_vars

\* a lookup found its own entry expired and deleted it, and deleted one more
\* entry, while a permanent entry and the other entries stayed
C28_Witness ==
    /\ banOp.op = "lookup" /\ banOp.ret = 0
    /\ \E e \in evicted : e.ip = banOp.ip
    /\ \E e \in evicted : e.ip # banOp.ip
    /\ Cardinality(evicted) = 2

\* ========================================================================
\* 5. Text: byte sequences and the C string functions used on them
\* ========================================================================

\* the least member of a non-empty set of integers
MinOf(S) == CHOOSE i \in S : \A j \in S : i <= j

\* the C string held in a buffer: the bytes before the first NUL
CStr(b) ==
    LET nuls == {i \in 1..Len(b) : b[i] = 0}
    IN IF nuls = {} THEN b ELSE SubSeq(b, 1, MinOf(nuls) - 1)

\* the first n bytes of b, or all of b
Take(b, n) == SubSeq(b, 1, IF Len(b) < n THEN Len(b) ELSE n)

\* b without its first n bytes
Drop(b, n) == SubSeq(b, n + 1, Len(b))

\* strcspn (s, set): length of the longest prefix with no byte of set
Strcspn(s, set) ==
    LET hits == {i \in 1..Len(s) : s[i] \in set}
    IN IF hits = {} THEN Len(s) ELSE MinOf(hits) - 1

\* strspn (s, set): length of the longest prefix made of bytes of set
Strspn(s, set) ==
    LET others == {i \in 1..Len(s) : s[i] \notin set}
    IN IF others = {} THEN Len(s) ELSE MinOf(others) - 1

\* whether pat occurs in s at offset i (0-based)
OccursAt(s, pat, i) == i + Len(pat) <= Len(s) /\ SubSeq(s, i + 1, i + Len(pat)) = pat

\* strstr (s, pat): offset of the first occurrence, -1 for NULL
Strstr(s, pat) ==
    LET hits == {i \in 0..(Len(s) - Len(pat)) : OccursAt(s, pat, i)}
    IN IF hits = {} THEN -1 ELSE MinOf(hits)

\* tolower on one byte, and on a text
LowerByte(c) == IF c >= 65 /\ c <= 90 THEN c + 32 ELSE c
Lower(s) == [i \in 1..Len(s) |-> LowerByte(s[i])]

\* strcasecmp (a, b) == 0
Strcasecmp0(a, b) == Lower(a) = Lower(b)

\* the base64 alphabet
B64Char(v) ==
    IF v < 26 THEN 65 + v
    ELSE IF v < 52 THEN 97 + (v - 26)
    ELSE IF v < 62 THEN 48 + (v - 52)
    ELSE IF v = 62 THEN 43 ELSE 47

RECURSIVE util_base64_encode(_)
\* util_base64_encode: three bytes to four characters, '=' padding
util_base64_encode(b) ==
    IF b = <<>> THEN <<>>
    ELSE IF Len(b) = 1
    THEN <<B64Char(b[1] \div 4), B64Char((b[1] % 4) * 16), 61, 61>>
    ELSE IF Len(b) = 2
    THEN <<B64Char(b[1] \div 4), B64Char((b[1] % 4) * 16 + b[2] \div 16),
           B64Char((b[2] % 16) * 4), 61>>
    ELSE <<B64Char(b[1] \div 4), B64Char((b[1] % 4) * 16 + b[2] \div 16),
           B64Char((b[2] % 16) * 4 + b[3] \div 64), B64Char(b[3] % 64)>>
         \o util_base64_encode(Drop(b, 3))

\* ========================================================================
\* 6. The header parser (httpp_parse, httpp_getvar)
\* ========================================================================

RECURSIVE SplitOn(_, _)
\* the pieces of s between occurrences of byte c
SplitOn(s, c) ==
    LET k == Strcspn(s, {c})
    IN IF k = Len(s) THEN <<s>> ELSE <<Take(s, k)>> \o SplitOn(Drop(s, k + 1), c)

RECURSIVE StripCr(_)
\* a line without the carriage returns at its end
StripCr(l) == IF l # <<>> /\ l[Len(l)] = 13 THEN StripCr(Take(l, Len(l) - 1)) ELSE l

RECURSIVE StripSp(_)
\* a value without the spaces at its start
StripSp(v) == IF v # <<>> /\ v[1] = 32 THEN StripSp(Tail(v)) ELSE v

\* the non-empty lines of a request
HeaderLines(s) ==
    LET raw == SplitOn(s, 10)
        all == [i \in 1..Len(raw) |-> StripCr(raw[i])]
    IN SelectSeq(all, LAMBDA l : l # <<>>)

\* "GET"
T_GET == <<71, 69, 84>>
\* "HEAD"
T_HEAD == <<72, 69, 65, 68>>
\* "SOURCE"
T_SOURCE == <<83, 79, 85, 82, 67, 69>>
\* "PUT"
T_PUT == <<80, 85, 84>>
\* "STATS"
T_STATS == <<83, 84, 65, 84, 83>>
\* "OPTIONS"
T_OPTIONS == <<79, 80, 84, 73, 79, 78, 83>>
\* "POST"
T_POST == <<80, 79, 83, 84>>

\* the request types the parser knows, by method name
ReqTypes ==
    <<<<T_GET, "httpp_req_get">>, <<T_HEAD, "httpp_req_head">>,
      <<T_SOURCE, "httpp_req_source">>, <<T_PUT, "httpp_req_put">>,
      <<T_STATS, "httpp_req_stats">>, <<T_OPTIONS, "httpp_req_options">>,
      <<T_POST, "httpp_req_post">>>>

ReqType(method) ==
    IF \E k \in 1..Len(ReqTypes) : Strcasecmp0(ReqTypes[k][1], method)
    THEN ReqTypes[CHOOSE k \in 1..Len(ReqTypes) : Strcasecmp0(ReqTypes[k][1], method)][2]
    ELSE "httpp_req_unknown"

NoParser == [ok |-> FALSE, req_type |-> "httpp_req_none", uri |-> <<>>,
             protocol |-> <<>>, version |-> <<>>, vars |-> <<>>]

\* one "name: value" line as <<name, value>>, the name in lower case
HeaderVar(l) ==
    LET k == Strcspn(l, {58})
    IN <<Lower(Take(l, k)), StripSp(Drop(l, k + 1))>>

\* httpp_parse (parser, data, len): the request line "METHOD URI PROTO/VER"
\* and the header lines after it
httpp_parse(data) ==
    LET lines == HeaderLines(data)
        words == IF lines = <<>> THEN <<>> ELSE SplitOn(lines[1], 32)
    IN IF Len(words) # 3 \/ ReqType(words[1]) = "httpp_req_unknown"
          \/ Strcspn(words[3], {47}) = Len(words[3])
       THEN NoParser
       ELSE [ok |-> TRUE,
             req_type |-> ReqType(words[1]),
             uri |-> words[2],
             protocol |-> Take(words[3], Strcspn(words[3], {47})),
             version |-> Drop(words[3], Strcspn(words[3], {47}) + 1),
             vars |-> LET hs == SelectSeq(Tail(lines),
                                          LAMBDA l : Strcspn(l, {58}) < Len(l))
                      IN [i \in 1..Len(hs) |-> HeaderVar(hs[i])]]

\* httpp_getvar (parser, name): <<>> for NULL, else <<value>>
httpp_getvar(parser, name) ==
    IF \E k \in 1..Len(parser.vars) : parser.vars[k][1] = name
    THEN <<parser.vars[CHOOSE k \in 1..Len(parser.vars) :
                          parser.vars[k][1] = name
                          /\ \A j \in 1..(k - 1) : parser.vars[j][1] # name][2]>>
    ELSE <<>>

\* ========================================================================
\* 7. One client from accept to dispatch (shoutcast_source_client,
\*    setup_source_client_callback, http_client_request)
\* ========================================================================

\* "OK2\r\nicy-caps:11\r\n\r\n"
T_OK2 ==
    <<79, 75, 50, 13, 10, 105, 99, 121, 45, 99, 97, 112, 115, 58, 49, 49, 13,
      10, 13, 10>>
\* "HTTP/1.1 100 Continue\r\n\r\n"
T_100_Continue ==
    <<72, 84, 84, 80, 47, 49, 46, 49, 32, 49, 48, 48, 32, 67, 111, 110, 116,
      105, 110, 117, 101, 13, 10, 13, 10>>
\* "100-continue"
T_100_continue == <<49, 48, 48, 45, 99, 111, 110, 116, 105, 110, 117, 101>>
\* "source:"
T_source_colon == <<115, 111, 117, 114, 99, 101, 58>>
\* "SOURCE "
T_SOURCE_sp == <<83, 79, 85, 82, 67, 69, 32>>
\* " HTTP/1.0\r\nAuthorization: Basic "
T_HTTP10_Authorization ==
    <<32, 72, 84, 84, 80, 47, 49, 46, 48, 13, 10, 65, 117, 116, 104, 111,
      114, 105, 122, 97, 116, 105, 111, 110, 58, 32, 66, 97, 115, 105, 99,
      32>>
\* "\r\n"
CRLF == <<13, 10>>
\* "<policy-file-request/>"
T_policy_file_request ==
    <<60, 112, 111, 108, 105, 99, 121, 45, 102, 105, 108, 101, 45, 114, 101,
      113, 117, 101, 115, 116, 47, 62>>
\* "\r\n\r\n"
T_CRLFCRLF == <<13, 10, 13, 10>>
\* "\n\n"
T_LFLF == <<10, 10>>
\* "\r\r\n\r\r\n"
T_CRCRLFCRCRLF == <<13, 13, 10, 13, 13, 10>>
\* "ICE"
T_ICE == <<73, 67, 69>>
\* "HTTP"
T_HTTP == <<72, 84, 84, 80>>
\* "1.1"
T_1_1 == <<49, 46, 49>>
\* "keep-alive"
T_keep_alive == <<107, 101, 101, 112, 45, 97, 108, 105, 118, 101>>
\* "expect"
T_expect == <<101, 120, 112, 101, 99, 116>>
\* "connection"
T_connection == <<99, 111, 110, 110, 101, 99, 116, 105, 111, 110>>
\* "user-agent"
T_user_agent == <<117, 115, 101, 114, 45, 97, 103, 101, 110, 116>>
\* the legacy listener's shoutcast_mount, "/live"
shoutcast_mount == <<47, 108, 105, 118, 101>>
\* what the sessions send: "hackme"
S_password == <<104, 97, 99, 107, 109, 101>>
\* "icy-name:Test\r\n\r\n"
S_icy_headers ==
    <<105, 99, 121, 45, 110, 97, 109, 101, 58, 84, 101, 115, 116, 13, 10, 13,
      10>>
\* "GET / HTTP/1.0\r\n\r\n"
S_get ==
    <<71, 69, 84, 32, 47, 32, 72, 84, 84, 80, 47, 49, 46, 48, 13, 10, 13, 10>>
\* "PUT /live HTTP/1.1\r\nExpect: 100-Continue\r\n\r\nAB"
S_put_expect ==
    <<80, 85, 84, 32, 47, 108, 105, 118, 101, 32, 72, 84, 84, 80, 47, 49, 46,
      49, 13, 10, 69, 120, 112, 101, 99, 116, 58, 32, 49, 48, 48, 45, 67,
      111, 110, 116, 105, 110, 117, 101, 13, 10, 13, 10, 65, 66>>
\* "SOURCE /live HTTP/1.0\r\n\r\nAB"
S_source_body ==
    <<83, 79, 85, 82, 67, 69, 32, 47, 108, 105, 118, 101, 32, 72, 84, 84, 80,
      47, 49, 46, 48, 13, 10, 13, 10, 65, 66>>
\* "GET / HTTP/1.0\r\nx:"
S_get_x ==
    <<71, 69, 84, 32, 47, 32, 72, 84, 84, 80, 47, 49, 46, 48, 13, 10, 120,
      58>>

\* "GET / HTTP/1.0\nUser-Agent: B\n\n"
S_get_agent ==
    <<71, 69, 84, 32, 47, 32, 72, 84, 84, 80, 47, 49, 46, 48, 10, 85, 115, 101, 114, 45, 65, 103, 101, 110, 116, 58, 32, 66, 10, 10>>
\* "HEAD / ICE/1.0\n\n"
S_head_ice == <<72, 69, 65, 68, 32, 47, 32, 73, 67, 69, 47, 49, 46, 48, 10, 10>>
\* "STATS / HTTP/1.0\n\n"
S_stats ==
    <<83, 84, 65, 84, 83, 32, 47, 32, 72, 84, 84, 80, 47, 49, 46, 48, 10, 10>>
\* "OPTIONS / HTTP/1.0\n\n"
S_options ==
    <<79, 80, 84, 73, 79, 78, 83, 32, 47, 32, 72, 84, 84, 80, 47, 49, 46, 48, 10, 10>>
\* "POST / HTTP/1.0\n\n"
S_post == <<80, 79, 83, 84, 32, 47, 32, 72, 84, 84, 80, 47, 49, 46, 48, 10, 10>>
\* "GET / FTP/1.0\n\n"
S_get_ftp == <<71, 69, 84, 32, 47, 32, 70, 84, 80, 47, 49, 46, 48, 10, 10>>

\* "SOURCE /l HTTP/1.0\n\nA\r\n\r\nB"
S_source_lf_then_crlf == <<83, 79, 85, 82, 67, 69, 32, 47, 108, 32, 72, 84, 84, 80, 47, 49, 46, 48, 10, 10, 65, 13, 10, 13, 10, 66>>
\* "SOURCE /l HTTP/1.0\r\n\r\nA\n\nB"
S_source_crlf_then_lf == <<83, 79, 85, 82, 67, 69, 32, 47, 108, 32, 72, 84, 84, 80, 47, 49, 46, 48, 13, 10, 13, 10, 65, 10, 10, 66>>
\* "PUT /l HTTP/1.0\r\r\n\r\r\nA\n\nB"
S_put_crcrlf_then_lf == <<80, 85, 84, 32, 47, 108, 32, 72, 84, 84, 80, 47, 49, 46, 48, 13, 13, 10, 13, 13, 10, 65, 10, 10, 66>>

\* sizeof (header), "char header [128]", and the size of the OK2 buffer
HEADER_SIZE == 128
RESP_SIZE == 30

\* the bytes strcspn/strspn take as end of line
EolBytes == {13, 10}

\* n copies of the letter a
Pad(n) == [i \in 1..n |-> 97]

\* what a peer may send.  A legacy session is a password, an end of line and
\* a header block; an HTTP session is its head alone.
Session(legacy, pass, eol, head) ==
    [legacy |-> legacy, pass |-> pass, eol |-> eol, head |-> head]

Sessions ==
    <<Session(TRUE, S_password, CRLF, S_icy_headers),
      Session(TRUE, S_password, <<10>>, S_icy_headers),
      Session(FALSE, <<>>, <<>>, S_get),
      Session(FALSE, <<>>, <<>>, S_put_expect),
      Session(FALSE, <<>>, <<>>, S_source_body),
      \* PER_CLIENT_REFBUF_SIZE - 1 bytes, the terminator last
      Session(FALSE, <<>>, <<>>,
              S_get_x \o Pad(PER_CLIENT_REFBUF_SIZE - 1 - Len(S_get_x) - 4) \o T_CRLFCRLF),
      \* PER_CLIENT_REFBUF_SIZE bytes and no terminator
      Session(FALSE, <<>>, <<>>,
              S_get_x \o Pad(PER_CLIENT_REFBUF_SIZE - Len(S_get_x))),
      \* the policy request as a Flash player sends it, with a NUL after it
      Session(FALSE, <<>>, <<>>, T_policy_file_request \o <<0>>),
      \* the policy request with a blank line after it
      Session(FALSE, <<>>, <<>>, T_policy_file_request \o T_LFLF),
      \* one request for each way the dispatcher can go
      Session(FALSE, <<>>, <<>>, S_get_agent),
      Session(FALSE, <<>>, <<>>, S_head_ice),
      Session(FALSE, <<>>, <<>>, S_stats),
      Session(FALSE, <<>>, <<>>, S_options),
      Session(FALSE, <<>>, <<>>, S_post),
      Session(FALSE, <<>>, <<>>, S_get_ftp),
      \* stream requests with a second terminator inside the body
      Session(FALSE, <<>>, <<>>, S_source_lf_then_crlf),
      Session(FALSE, <<>>, <<>>, S_source_crlf_then_lf),
      Session(FALSE, <<>>, <<>>, S_put_crcrlf_then_lf)>>

\* the sessions of the preamble and legacy runs, and those of the dispatcher
PreambleSessions == 1..9
DispatchSessions == {3, 4, 5} \cup (10..15)
BodySessions == {5} \cup (16..18)

SessionBytes(k) == Sessions[k].pass \o Sessions[k].eol \o Sessions[k].head

\* refbuf_t: data holds the bytes in use, len is the len field (which the
\* code also sets apart from the data), associated is <<>> or <<refbuf>>
NullBuf == [null |-> TRUE, data |-> <<>>, len |-> 0, associated |-> <<>>]
RefBuf(data, associated) ==
    [null |-> FALSE, data |-> data, len |-> Len(data), associated |-> associated]

NoClient ==
    [ops |-> "none", shared_data |-> NullBuf, refbuf |-> NullBuf, pos |-> 0,
     respcode |-> 0, format_data |-> FALSE, aux_data |-> FALSE, parser |-> NoParser,
     error |-> 0, discon |-> 0, keepalive |-> FALSE]

ClientOp(op, ret, process) == [op |-> op, ret |-> ret, process |-> process]

ClientInit ==
    /\ client = NoClient
    /\ peer = [session |-> 0, inbox |-> <<>>]
    /\ sent = <<>>
    /\ running = "ICE_RUNNING"
    /\ current_time = 0
    /\ request = <<>>
    /\ clientOp = ClientOp("none", 0, "none")

\* what one read on the socket may do: deliver n >= 1 bytes, report end of
\* stream (0), would-block (-1) or a failure that is not recoverable (-2)
ReadOutcomes(remaining) == {-2, -1, 0} \cup (1..Min(remaining, Len(peer.inbox)))

\* client_read_bytes (client, buf, remaining), through connection_read
client_read_bytes(c, rd) ==
    [ret |-> IF rd = -2 THEN -1 ELSE rd,
     bytes |-> IF rd > 0 THEN Take(peer.inbox, rd) ELSE <<>>,
     error |-> IF rd = 0 \/ rd = -2 THEN 1 ELSE c.error]

\* what one write may do: take everything, take one byte, would-block, fail
WriteOutcomes == {"all", "one", "again", "fatal"}

\* client_send_bytes (client, refbuf->data + pos, refbuf->len - pos), through
\* connection_send: [ret, error]
client_send_bytes(c, wr) ==
    LET len == c.refbuf.len - c.pos
    IN [ret |-> IF wr = "all" THEN len
                ELSE IF wr = "one" THEN Min(1, len)
                ELSE -1,
        error |-> IF wr = "fatal" THEN 1 ELSE c.error]

\* format_generic_write_to_client (client): [c, out], out the bytes that
\* went to the peer
format_generic_write_to_client(c, wr) ==
    LET w == client_send_bytes(c, wr)
    IN [c |-> [c EXCEPT !.error = w.error,
                        !.pos = IF w.ret > 0 THEN @ + w.ret ELSE @],
        out |-> IF w.ret > 0 THEN SubSeq(c.refbuf.data, c.pos + 1, c.pos + w.ret)
                ELSE <<>>,
        ret |-> w.ret]

\* setup_source_client_callback with the send of the interim response
\* skipped: the operations are switched at once
setup_source_client_callback_NoWait(c) ==
    LET buf == c.refbuf
        len == buf.len - c.pos
        buf1 == IF ~c.format_data /\ len > 0
                THEN [buf EXCEPT !.associated = <<RefBuf(Drop(buf.data, c.pos), <<>>)>>,
                                 !.len = @ - len,
                                 !.data = Take(@, c.pos)]
                ELSE buf
    IN [c EXCEPT !.refbuf = IF buf1.associated = <<>> THEN NullBuf
                            ELSE buf1.associated[1],
                 !.pos = 0,
                 !.format_data = FALSE,
                 !.ops = "http_req_source_ops"]

\* setup_source_client_callback (client)
setup_source_client_callback(c) ==
    LET buf == c.refbuf
        expect == httpp_getvar(c.parser, T_expect)
        len == buf.len - c.pos
        buf1 == IF ~c.format_data /\ len > 0
                THEN [buf EXCEPT !.associated = <<RefBuf(Drop(buf.data, c.pos), <<>>)>>,
                                 !.len = @ - len,
                                 !.data = Take(@, c.pos)]
                ELSE buf
    IN IF ~c.format_data /\ expect # <<>> /\ Strcasecmp0(expect[1], T_100_continue)
       THEN \* the response is queued; client_send_buffer_callback makes the
            \* send-buffer operation current, to come back here when done
            [c EXCEPT !.refbuf = [buf1 EXCEPT
                                     !.data = Take(T_100_Continue, PER_CLIENT_REFBUF_SIZE - 1),
                                     !.len = Len(Take(T_100_Continue, PER_CLIENT_REFBUF_SIZE - 1))],
                      !.format_data = TRUE,
                      !.pos = 0,
                      !.aux_data = TRUE,
                      !.ops = "client_buffer_ops"]
       ELSE [c EXCEPT !.refbuf = IF buf1.associated = <<>> THEN NullBuf
                                 ELSE buf1.associated[1],
                      !.pos = 0,
                      !.format_data = FALSE,
                      !.ops = "http_req_source_ops"]

\* the process function of client_buffer_ops: send what is left of refbuf,
\* and with the last byte gone call the callback: [c, out, ret]
client_send_buffer(c, wr) ==
    LET w == format_generic_write_to_client(c, wr)
    IN IF w.c.error # 0 THEN [c |-> w.c, out |-> w.out, ret |-> -1]
       ELSE IF w.c.pos >= w.c.refbuf.len /\ w.c.aux_data
       THEN [c |-> setup_source_client_callback([w.c EXCEPT !.aux_data = FALSE]),
             out |-> w.out, ret |-> 0]
       ELSE [c |-> w.c, out |-> w.out, ret |-> 0]

\* the worker drops a client whose operation returned -1 (client_destroy)
Destroyed(c) == [c EXCEPT !.ops = "destroyed", !.shared_data = NullBuf]

\* the accept thread hands a new client to the workers: accept_client has
\* given it an empty request buffer and the operations of its listener,
\* connection_thread the deadline
client_add_worker(k) ==
    /\ client.ops = "none"
    /\ client' = [NoClient EXCEPT
                     !.ops = IF Sessions[k].legacy THEN "shoutcast_source_ops"
                             ELSE "http_request_ops",
                     !.shared_data = RefBuf(<<>>, <<>>),
                     !.discon = current_time + header_timeout]
    /\ peer' = [session |-> k, inbox |-> SessionBytes(k)]
    /\ clientOp' = ClientOp("accept", 0, "none")
    /\ UNCHANGED <<sent, running, current_time, request>>
    /\ ClientFrame

\* the deadline test with the deadline instant itself still allowed
Expired_Late(discon, t) == discon < t

\* "con->discon.time <= client->worker->current_time.tv_sec": the deadline
\* has been reached
Expired(discon, t) == discon <= t

\* the result of one run of a per-client operation: the client after it,
\* the number of peer bytes it read, the bytes it wrote, its return value,
\* the process function it called last, and the bytes it parsed
Ran(c, take, out, ret, process, parsed) ==
    [c |-> c, take |-> take, out |-> out, ret |-> ret, process |-> process,
     parsed |-> parsed]

\* the synthetic request shoutcast_source_client builds from the buffer
\* data, whose password ends at offset len
SyntheticRequest(data, len) ==
    LET header == Take(T_source_colon \o Take(data, len), HEADER_SIZE - 1)
        esc_header == util_base64_encode(header)
        after == CStr(Drop(data, len + 1))
        rest == Drop(after, Strspn(after, EolBytes))
    IN CStr(Take(T_SOURCE_sp \o shoutcast_mount \o T_HTTP10_Authorization
                 \o esc_header \o CRLF \o rest,
                 PER_CLIENT_REFBUF_SIZE - 1))

\* the tail with the operations switched after any write, complete or not
ShoutcastWrite_SwitchAtOnce(c, take, wr) ==
    LET w == format_generic_write_to_client(c, wr)
    IN Ran([w.c EXCEPT !.shared_data = w.c.refbuf.associated[1],
                       !.refbuf = NullBuf,
                       !.ops = "http_request_ops",
                       !.pos = 0],
           take, w.out, 0, "none", <<>>)

\* the tail of shoutcast_source_client: write the response, and with its
\* last byte written make the synthetic request the buffer of
\* http_client_request
ShoutcastWrite(c, take, wr) ==
    LET w == format_generic_write_to_client(c, wr)
    IN Ran(IF w.c.pos = w.c.refbuf.len
           THEN [w.c EXCEPT !.shared_data = w.c.refbuf.associated[1],
                            !.refbuf = NullBuf,
                            !.ops = "http_request_ops",
                            !.pos = 0]
           ELSE w.c,
           take, w.out, 0, "none", <<>>)

\* "remaining = PER_CLIENT_REFBUF_SIZE - 2 - refbuf->len"
ShoutcastRemaining(len) == PER_CLIENT_REFBUF_SIZE - 2 - len

\* shoutcast_source_client (client) with the read doing rd and the write wr
ShoutcastRun(c, rd, wr) ==
    IF c.error # 0 \/ Expired(c.discon, current_time)
    THEN Ran(c, 0, <<>>, -1, "none", <<>>)
    ELSE IF c.shared_data.null THEN ShoutcastWrite(c, 0, wr)
    ELSE IF ShoutcastRemaining(c.shared_data.len) = 0
    THEN Ran(c, 0, <<>>, -1, "none", <<>>)
    ELSE LET r == client_read_bytes(c, rd)
             c1 == [c EXCEPT !.error = r.error]
             data == c.shared_data.data \o r.bytes
             str == CStr(data)
             len == Strcspn(str, EolBytes)
         IN IF r.ret = 0 \/ r.error # 0 \/ running # "ICE_RUNNING"
            THEN Ran(c1, Len(r.bytes), <<>>, -1, "none", <<>>)
            ELSE IF r.ret < 0 THEN Ran(c1, 0, <<>>, 0, "none", <<>>)
            ELSE IF len = Len(str)
            THEN Ran([c1 EXCEPT !.shared_data = RefBuf(data, <<>>)],
                     Len(r.bytes), <<>>, 0, "none", <<>>)
            ELSE ShoutcastWrite(
                     [c1 EXCEPT !.respcode = 200,
                                !.refbuf = RefBuf(Take(T_OK2, RESP_SIZE - 1),
                                                  <<RefBuf(SyntheticRequest(data, len), <<>>)>>),
                                !.shared_data = NullBuf],
                     Len(r.bytes), wr)

\* the client after an operation has run: a -1 has the worker destroy the
\* client
RunEffects(op, x) ==
    /\ client' = IF x.ret = -1 THEN Destroyed(x.c) ELSE x.c
    /\ peer' = [peer EXCEPT !.inbox = Drop(@, x.take)]
    /\ sent' = sent \o x.out
    /\ request' = IF x.parsed = <<>> THEN request ELSE x.parsed
    /\ clientOp' = ClientOp(op, x.ret, x.process)
    /\ UNCHANGED <<running, current_time>>

\* the state after an operation has run
AfterRun(op, x) ==
    /\ RunEffects(op, x)
    /\ ClientFrame

\* the worker runs shoutcast_source_client
shoutcast_source_client(rd, wr) ==
    /\ client.ops = "shoutcast_source_ops"
    /\ rd \in ReadOutcomes(ShoutcastRemaining(client.shared_data.len))
    /\ client.shared_data.null => rd = -1
    /\ AfterRun("shoutcast_source_client", ShoutcastRun(client, rd, wr))

\* the lines of the user-agent file: the one pattern "B*"
useragents == <<<<66, 42>>>>

\* the protocol test with every token let through
ProtocolOk_Any(protocol) == TRUE

\* "strcmp("ICE", str) && strcmp("HTTP", str)" is the rejection
ProtocolOk(protocol) == protocol = T_ICE \/ protocol = T_HTTP

\* the comparison made over the 22 characters only
PolicyRequest_Prefix(data) ==
    Take(data, Len(T_policy_file_request)) = T_policy_file_request

\* memcmp (refbuf->data, "<policy-file-request/>", 23) == 0: the 22
\* characters and the NUL after them
PolicyRequest(data) ==
    Take(data \o <<0>>, Len(T_policy_file_request) + 1) = T_policy_file_request \o <<0>>

\* "find a blank line": the offset just after the terminator found, trying
\* the three forms in turn; -1 when there is none
BlankLine(str) ==
    IF Strstr(str, T_CRLFCRLF) >= 0 THEN Strstr(str, T_CRLFCRLF) + 4
    ELSE IF Strstr(str, T_LFLF) >= 0 THEN Strstr(str, T_LFLF) + 2
    ELSE IF Strstr(str, T_CRCRLFCRCRLF) >= 0 THEN Strstr(str, T_CRCRLFCRCRLF) + 6
    ELSE -1

\* the keep-alive flag after the version and the connection header
KeepAlive(parser) ==
    LET str == httpp_getvar(parser, T_connection)
    IN IF str # <<>> THEN Strcasecmp0(str[1], T_keep_alive)
       ELSE parser.version = T_1_1

\* http_client_request from "client->refbuf = client->shared_data" on: the
\* request in data is parsed and the client passed on by request type; ptr
\* is the offset after the blank line
Dispatch(c, data, ptr, take, wr) ==
    LET parser == httpp_parse(data)
        c1 == [c EXCEPT !.refbuf = RefBuf(data, <<>>),
                        !.shared_data = NullBuf,
                        !.discon = 0,
                        !.parser = parser]
        agent == httpp_getvar(parser, T_user_agent)
        c2 == [c1 EXCEPT !.keepalive = KeepAlive(parser)]
    IN IF ~parser.ok THEN Ran(c1, take, <<>>, -1, "none", data)
       ELSE IF agent # <<>> /\ cached_pattern_search(useragents, agent[1]) > 0
       THEN Ran(c1, take, <<>>, -1, "none", data)
       ELSE IF ~ProtocolOk(parser.protocol)
       THEN Ran(c1, take, <<>>, -1, "none", data)
       ELSE IF parser.req_type \in {"httpp_req_head", "httpp_req_get"}
       THEN Ran([c2 EXCEPT !.refbuf.len = PER_CLIENT_REFBUF_SIZE,
                           !.ops = "http_req_get_ops"],
                take, <<>>, 0, "_handle_get_request", data)
       ELSE IF parser.req_type \in {"httpp_req_source", "httpp_req_put"}
       THEN LET c3 == setup_source_client_callback([c2 EXCEPT !.pos = ptr])
            IN IF c3.ops = "client_buffer_ops"
               THEN LET w == client_send_buffer(c3, wr)
                    IN Ran(w.c, take, w.out, w.ret, "client_send_buffer", data)
               ELSE Ran(c3, take, <<>>, 0, "_handle_source_request", data)
       ELSE IF parser.req_type = "httpp_req_stats"
       THEN Ran([c2 EXCEPT !.refbuf.len = PER_CLIENT_REFBUF_SIZE,
                           !.ops = "http_req_stats_ops"],
                take, <<>>, 0, "_handle_stats_request", data)
       ELSE IF parser.req_type = "httpp_req_options"
       THEN Ran([c2 EXCEPT !.ops = "client_send_options"],
                take, <<>>, 0, "client_send_options", data)
       ELSE Ran([c2 EXCEPT !.ops = "client_send_501"],
                take, <<>>, 0, "client_send_501", data)

\* the room left in the request buffer, with no byte kept for the NUL
HttpRemaining_NoNul(len) == PER_CLIENT_REFBUF_SIZE - len

\* "remaining = PER_CLIENT_REFBUF_SIZE - 1 - refbuf->len"
HttpRemaining(len) == PER_CLIENT_REFBUF_SIZE - 1 - len

\* the request buffer of http_client_request: shared_data, or a new one
RequestBuf(c) == IF c.shared_data.null THEN RefBuf(<<>>, <<>>) ELSE c.shared_data

\* http_client_request (client) with the read doing rd and the write wr
HttpRun(c, rd, wr) ==
    IF running # "ICE_RUNNING" THEN Ran(c, 0, <<>>, -1, "none", <<>>)
    ELSE LET refbuf == RequestBuf(c)
             remaining == HttpRemaining(refbuf.len)
             c0 == [c EXCEPT !.shared_data = refbuf]
         IN IF remaining # 0 /\ ~Expired(c.discon, current_time)
            THEN LET r == client_read_bytes(c0, rd)
                     c1 == [c0 EXCEPT !.error = r.error]
                     data == refbuf.data \o r.bytes
                     ptr == BlankLine(CStr(data))
                 IN IF r.ret > 0
                    THEN IF PolicyRequest(data)
                         THEN Ran([c1 EXCEPT !.respcode = 200,
                                             !.shared_data = NullBuf,
                                             !.ops = "fserve"],
                                  Len(r.bytes), <<>>, 0, "fserve_setup_client_fb", <<>>)
                         ELSE IF ptr < 0
                         THEN Ran([c1 EXCEPT !.shared_data = RefBuf(data, <<>>)],
                                  Len(r.bytes), <<>>, 0, "none", <<>>)
                         ELSE Dispatch(c1, data, ptr, Len(r.bytes), wr)
                    ELSE IF r.ret # 0 /\ r.error = 0
                    THEN Ran(c1, 0, <<>>, 0, "none", <<>>)
                    ELSE Ran(c1, 0, <<>>, -1, "none", <<>>)
            ELSE Ran(c0, 0, <<>>, -1, "none", <<>>)

\* the worker runs http_client_request
http_client_request(rd, wr) ==
    /\ client.ops = "http_request_ops"
    /\ rd \in ReadOutcomes(HttpRemaining(RequestBuf(client).len))
    /\ AfterRun("http_client_request", HttpRun(client, rd, wr))

\* the worker runs the send-buffer operation
client_buffer_process(wr) ==
    /\ client.ops = "client_buffer_ops"
    /\ AfterRun("client_send_buffer",
                LET w == client_send_buffer(client, wr)
                IN Ran(w.c, 0, w.out, w.ret, "none", <<>>))

\* global.running leaves ICE_RUNNING
halt ==
    /\ running = "ICE_RUNNING"
    /\ running' = "ICE_HALTING"
    /\ clientOp' = ClientOp("halt", 0, "none")
    /\ UNCHANGED <<client, peer, sent, current_time, request>>
    /\ ClientFrame

\* the worker's clock moves on by a second, up to the deadline
worker_clock ==
    /\ current_time < header_timeout
    /\ current_time' = current_time + 1
    /\ clientOp' = ClientOp("clock", 0, "none")
    /\ UNCHANGED <<client, peer, sent, running, request>>
    /\ ClientFrame

NextClient ==
    \/ \E k \in PreambleSessions : client_add_worker(k)
    \/ \E rd \in (-2)..PER_CLIENT_REFBUF_SIZE, wr \in WriteOutcomes :
          shoutcast_source_client(rd, wr)
    \/ \E rd \in (-2)..PER_CLIENT_REFBUF_SIZE, wr \in WriteOutcomes :
          http_client_request(rd, wr)
    \/ \E wr \in WriteOutcomes : client_buffer_process(wr)
    \/ halt
    \/ worker_clock

\* the dispatcher alone: requests of every method and protocol, read in any
\* split
NextDispatch ==
    \/ \E k \in DispatchSessions : client_add_worker(k)
    \/ \E rd \in (-2)..PER_CLIENT_REFBUF_SIZE, wr \in WriteOutcomes :
          http_client_request(rd, wr)
    \/ \E wr \in WriteOutcomes : client_buffer_process(wr)

\* stream requests with terminators of more than one form, read in any split
NextBody ==
    \/ \E k \in BodySessions : client_add_worker(k)
    \/ \E rd \in (-2)..PER_CLIENT_REFBUF_SIZE, wr \in WriteOutcomes :
          http_client_request(rd, wr)

\* the value of a base64 character ('=' counted as 0)
B64Val(ch) ==
    IF ch >= 65 /\ ch <= 90 THEN ch - 65
    ELSE IF ch >= 97 /\ ch <= 122 THEN ch - 71
    ELSE IF ch >= 48 /\ ch <= 57 THEN ch + 4
    ELSE IF ch = 43 THEN 62
    ELSE IF ch = 47 THEN 63 ELSE 0

RECURSIVE B64Decode(_)
\* the bytes a base64 text stands for
B64Decode(x) ==
    IF Len(x) < 4 THEN <<>>
    ELSE LET n == B64Val(x[1]) * 262144 + B64Val(x[2]) * 4096
                  + B64Val(x[3]) * 64 + B64Val(x[4])
             three == <<n \div 65536, (n \div 256) % 256, n % 256>>
         IN (IF x[3] = 61 THEN Take(three, 1)
             ELSE IF x[4] = 61 THEN Take(three, 2) ELSE three)
            \o B64Decode(Drop(x, 4))

\* C7: a legacy session that sends password P, an end of line and header
\* block H is parsed as "SOURCE <mount> HTTP/1.0", an Authorization: Basic
\* line whose value decodes to "source:P", and then exactly the bytes of H,
\* however the reads split the session.
C7_SyntheticRequestIsPasswordThenHeaders ==
    (peer.session # 0 /\ Sessions[peer.session].legacy /\ request # <<>>) =>
        LET start == T_SOURCE_sp \o shoutcast_mount \o T_HTTP10_Authorization
            value == Take(Drop(request, Len(start)),
                          Strcspn(Drop(request, Len(start)), EolBytes))
        IN /\ Take(request, Len(start)) = start
           /\ B64Decode(value) = T_source_colon \o Sessions[peer.session].pass
           /\ Drop(request, Len(start) + Len(value)) = CRLF \o Sessions[peer.session].head

\* C9: the preamble reader never holds more than PER_CLIENT_REFBUF_SIZE - 1
\* bytes in the request buffer; a preamble of exactly that many bytes with
\* the terminator as its last bytes is parsed and dispatched once read; and
\* an invocation that finds the buffer full, no terminator accepted, returns
\* terminal failure.
C9_BufferBoundAndFullBufferFails ==
    /\ [](/\ Len(client.shared_data.data) <= PER_CLIENT_REFBUF_SIZE - 1
          /\ Len(client.refbuf.data) <= PER_CLIENT_REFBUF_SIZE - 1
          /\ (/\ peer.session # 0
              /\ ~Sessions[peer.session].legacy
              /\ Len(SessionBytes(peer.session)) = PER_CLIENT_REFBUF_SIZE - 1
              /\ peer.inbox = <<>>)
             => /\ request = SessionBytes(peer.session)
                /\ client.ops = "http_req_get_ops")
    /\ [][(/\ client.ops = "http_request_ops"
           /\ client.shared_data.len = PER_CLIENT_REFBUF_SIZE - 1
           /\ clientOp'.op = "http_client_request")
          => clientOp'.ret = -1 /\ client'.ops = "destroyed"]_vars

\* a peer has sent PER_CLIENT_REFBUF_SIZE bytes without a blank line; with
\* the server running, the deadline ahead and no error on the connection,
\* the client was dropped with all but the last byte read
C9_Witness ==
    /\ peer.session # 0
    /\ Len(SessionBytes(peer.session)) = PER_CLIENT_REFBUF_SIZE
    /\ Len(peer.inbox) = 1
    /\ clientOp = ClientOp("http_client_request", -1, "none")
    /\ client.ops = "destroyed"
    /\ client.error = 0
    /\ running = "ICE_RUNNING"
    /\ current_time = 0

\* whether the parsed request asks for the interim response
Expects100(parser) ==
    LET expect == httpp_getvar(parser, T_expect)
    IN expect # <<>> /\ Lower(expect[1]) = T_100_continue

\* the bytes of the session read so far that follow its blank line
BodyRead ==
    LET all == SessionBytes(peer.session)
    IN SubSeq(all, Strstr(all, T_CRLFCRLF) + 5, Len(all) - Len(peer.inbox))

\* C10: when the operations of a client whose SOURCE/PUT request carried
\* Expect: 100-continue (in any case) are those of the source handler, the
\* bytes "HTTP/1.1 100 Continue\r\n\r\n" have been sent, all of them and
\* nothing else, and the client's buffer holds the body bytes that had
\* arrived after the blank line.
C10_ContinueSentBeforeSourceHandler ==
    (client.ops = "http_req_source_ops" /\ Expects100(client.parser)
     /\ ~Sessions[peer.session].legacy) =>
        /\ sent = T_100_Continue
        /\ client.refbuf = IF BodyRead = <<>> THEN NullBuf ELSE RefBuf(BodyRead, <<>>)

\* the interim response went out in more than one write, the last one from
\* the send-buffer operation, and two body bytes wait for the source handler
C10_Witness ==
    /\ client.ops = "http_req_source_ops" /\ Expects100(client.parser)
    /\ clientOp.op = "client_send_buffer"
    /\ sent = T_100_Continue
    /\ Len(client.refbuf.data) = 2
    /\ client.refbuf.data = BodyRead

\* the request buffer as a run of the preamble reader left it after its
\* read: what it held before and the bytes the read took from the peer
C14_Buffer ==
    RequestBuf(client).data \o Take(peer.inbox, Len(peer.inbox) - Len(peer'.inbox))

\* whether buffer b begins with the bytes lit
C14_Begins(b, lit) == Len(b) >= Len(lit) /\ \A i \in 1..Len(lit) : b[i] = lit[i]

\* a run of the preamble reader that read bytes
C14_Read ==
    /\ client.ops = "http_request_ops"
    /\ clientOp'.op = "http_client_request"
    /\ Len(peer'.inbox) < Len(peer.inbox)

\* the run diverted: response code 200, the client with the file-serving
\* collaborator, no parser made and nothing parsed
C14_Diverted ==
    /\ clientOp'.process = "fserve_setup_client_fb"
    /\ client'.ops = "fserve"
    /\ client'.respcode = 200
    /\ client'.parser = NoParser /\ request' = request

\* C14 as stated: a run of the preamble reader that read bytes diverts to the
\* file-serving collaborator (response code 200, no terminator search, no
\* parser) exactly when the buffer then begins with "<policy-file-request/>".
C14_DivertsOnPolicyPrefix ==
    [][C14_Read => (C14_Diverted <=> C14_Begins(C14_Buffer, T_policy_file_request))]_vars

\* C14 amended: the run diverts exactly when the buffer is the 22 characters
\* "<policy-file-request/>" and nothing more, or begins with them and a NUL
\* byte; a buffer with any other byte after the 22 characters goes on to the
\* terminator search.
C14_DivertsOnPolicyThenNul ==
    [][C14_Read =>
         (C14_Diverted <=> \/ C14_Buffer = T_policy_file_request
                           \/ C14_Begins(C14_Buffer, T_policy_file_request \o <<0>>))]_vars

\* C14 witness: the policy request diverted with the peer's NUL still unread
C14_Witness ==
    /\ clientOp.op = "http_client_request"
    /\ clientOp.process = "fserve_setup_client_fb"
    /\ client.ops = "fserve" /\ client.respcode = 200
    /\ peer.session = 8 /\ peer.inbox = <<0>>

\* C12: on a legacy listener with mount /live, once the peer's
\* "hackme\r\nicy-name:Test\r\n\r\n" has been read and the OK2 response
\* written, the next run of the preamble reader dispatches the request to
\* source setup although the peer sends nothing more (the process is running,
\* the deadline is not reached and the connection has no error).
C12_LegacyDispatchedWithoutMoreBytes ==
    [][(/\ peer.session = 1 /\ peer.inbox = <<>>
        /\ sent = T_OK2
        /\ client.ops = "http_request_ops"
        /\ running = "ICE_RUNNING" /\ client.discon > current_time
        /\ clientOp'.op = "http_client_request"
        /\ client'.error = 0)
       => clientOp'.process = "_handle_source_request"]_vars

\* the operations of a client in legacy handshake or preamble reading
C15_PreambleOps == {"shoutcast_source_ops", "http_request_ops"}

\* C15: a run of the legacy adapter or the preamble reader made when the
\* worker's time has reached the client's deadline returns -1, reads no byte
\* from the peer and writes none, whatever the peer has pending; and while the
\* client stays in these two operations its deadline is not changed.
C15_DeadlineTerminates ==
    [][(client.ops \in C15_PreambleOps
        /\ clientOp'.op \in {"shoutcast_source_client", "http_client_request"})
       => /\ current_time >= client.discon =>
                clientOp'.ret = -1 /\ peer' = peer /\ sent' = sent
          /\ client'.ops \in C15_PreambleOps => client'.discon = client.discon]_vars

\* C15 witness: a legacy client that read its password line at the first
\* second, wrote OK2 and switched to the preamble reader was dropped at the
\* deadline with the peer's headers still pending
C15_Witness ==
    /\ clientOp.op = "http_client_request" /\ clientOp.ret = -1
    /\ peer.session = 1 /\ peer.inbox = S_icy_headers
    /\ sent = T_OK2
    /\ running = "ICE_RUNNING" /\ client.error = 0
    /\ current_time = client.discon

\* C17: with the running flag at halting, a run of the preamble reader or of
\* the legacy adapter (reading the password, or writing the OK2 response)
\* returns -1.
C17_HaltingTerminatesClientOps ==
    [][(running # "ICE_RUNNING"
        /\ clientOp'.op \in {"shoutcast_source_client", "http_client_request"})
       => clientOp'.ret = -1]_vars

\* with the running flag at halting, a run of the preamble reader, or of the
\* legacy adapter while it still has its password buffer, returns -1
C17_HaltingTerminatesReaders ==
    [][(running # "ICE_RUNNING"
        /\ clientOp'.op \in {"shoutcast_source_client", "http_client_request"}
        /\ ~(client.ops = "shoutcast_source_ops" /\ client.shared_data.null))
       => clientOp'.ret = -1]_vars

\* a run of the preamble reader that found the blank line and had the
\* request parsed
C21_Parsed == clientOp'.op = "http_client_request" /\ request' # request

\* whether the user-agent of parsed request p matches a line of the
\* user-agent file
C21_AgentListed(p) ==
    /\ httpp_getvar(p, T_user_agent) # <<>>
    /\ \E k \in 1..Len(useragents) : Glob(httpp_getvar(p, T_user_agent)[1], useragents[k])

\* the bytes of request r after its blank line
C21_Body(r) == Drop(r, BlankLine(CStr(r)))

\* source setup has the body of request r, from the end of the header
\* terminator on, for the source handler: in the client's buffer once the
\* operations are the source handler's, behind the interim response while that
\* is being sent
C21_SourceSetup(c, r) ==
    LET body == IF C21_Body(r) = <<>> THEN <<>> ELSE <<RefBuf(C21_Body(r), <<>>)>>
    IN \/ /\ c.ops = "http_req_source_ops" /\ c.pos = 0
          /\ c.refbuf = IF body = <<>> THEN NullBuf ELSE body[1]
       \/ /\ c.ops = "client_buffer_ops" /\ c.refbuf.associated = body
       \/ /\ c.ops = "destroyed" /\ c.error # 0

\* the run passed the client on by the method of parsed request p
C21_RoutedByMethod(p) ==
    IF p.req_type \in {"httpp_req_head", "httpp_req_get"}
    THEN clientOp'.process = "_handle_get_request" /\ client'.ops = "http_req_get_ops"
    ELSE IF p.req_type \in {"httpp_req_source", "httpp_req_put"}
    THEN /\ clientOp'.process \in {"_handle_source_request", "client_send_buffer"}
         /\ C21_SourceSetup(client', request')
    ELSE IF p.req_type = "httpp_req_stats"
    THEN clientOp'.process = "_handle_stats_request" /\ client'.ops = "http_req_stats_ops"
    ELSE IF p.req_type = "httpp_req_options"
    THEN clientOp'.process = "client_send_options"
    ELSE clientOp'.process = "client_send_501"

\* the run reached no handler: the client is dropped
C21_Rejected ==
    clientOp'.process = "none" /\ clientOp'.ret = -1 /\ client'.ops = "destroyed"

\* C21 as stated: a request whose headers parse with protocol token HTTP or
\* ICE is routed by its method only (HEAD and GET to the GET handler, SOURCE
\* and PUT to source setup with the body taken from the end of the header
\* terminator, STATS to the stats handler, OPTIONS to the OPTIONS response,
\* any other method to the 501 response), and a request with another
\* protocol token reaches none of these.
C21_RoutedByMethodOnly ==
    [][C21_Parsed =>
         LET p == httpp_parse(request')
         IN /\ (p.ok /\ p.protocol \in {T_HTTP, T_ICE}) => C21_RoutedByMethod(p)
            /\ (p.ok /\ p.protocol \notin {T_HTTP, T_ICE}) => C21_Rejected]_vars

\* C21 amended: the same for a request whose user-agent matches no line of
\* the user-agent file; a request whose user-agent matches a line is dropped
\* before the protocol token and the method are looked at.
C21_RoutedByMethodUnlessAgentListed ==
    [][C21_Parsed =>
         LET p == httpp_parse(request')
         IN /\ (p.ok /\ p.protocol \in {T_HTTP, T_ICE} /\ ~C21_AgentListed(p))
                  => C21_RoutedByMethod(p)
            /\ (p.ok /\ p.protocol \notin {T_HTTP, T_ICE}) => C21_Rejected
            /\ (p.ok /\ C21_AgentListed(p)) => C21_Rejected]_vars

\* C21 witness: "HEAD / ICE/1.0" went to the GET handler
C21_Witness ==
    /\ request = S_head_ice
    /\ clientOp.op = "http_client_request"
    /\ clientOp.process = "_handle_get_request"
    /\ client.ops = "http_req_get_ops"

\* ========================================================================
\* 8. connection_init and the address it stores
\* ========================================================================

\* "::ffff:"
T_mapped == <<58, 58, 102, 102, 102, 102, 58>>

\* "unknown", what the name buffer holds when getnameinfo fills nothing in
T_unknown == <<117, 110, 107, 110, 111, 119, 110>>

\* the address texts a caller or the socket may give: plain, IPv4-mapped,
\* the prefix alone, the prefix twice, the prefix in capitals, and a text
\* that stops short of the prefix
AddrTexts ==
    {Ip1, T_mapped \o Ip1, T_mapped, T_mapped \o T_mapped \o Ip1,
     <<58, 58, 70, 70, 70, 70, 58>> \o Ip1, <<58, 58, 102, 102, 102>>}

\* what getpeername and getnameinfo may yield for the socket: no peer name
\* (getpeername fails), a name getnameinfo cannot print, or its text
NoPeerName == [peer |-> FALSE, printable |-> FALSE, text |-> <<>>]
SockNames ==
    {NoPeerName, [peer |-> TRUE, printable |-> FALSE, text |-> <<>>]}
        \cup {[peer |-> TRUE, printable |-> TRUE, text |-> t] : t \in AddrTexts}

\* char buffer [200] = "unknown"; getnameinfo (..., buffer, 200, ...)
getnameinfo(sa) == IF sa.printable THEN sa.text ELSE T_unknown

\* the prefix is never taken off
StripMapped_Keep(text) == text

\* text + (strncmp (text, "::ffff:", 7) == 0 ? 7 : 0)
StripMapped(text) == IF Take(text, 7) = T_mapped THEN Drop(text, 7) ELSE text

\* a connection_t as connection_init sees it; ip is <<>> for NULL
NoIcon == [sock |-> SOCK_ERROR, id |-> 0, ip |-> <<>>]

InitOp(op, sock, addr, sa, ret) ==
    [op |-> op, sock |-> sock, addr |-> addr, sa |-> sa, ret |-> ret]

InitInit ==
    /\ icon = NoIcon
    /\ initOp = InitOp("none", SOCK_ERROR, <<>>, NoPeerName, 0)

\* connection_init (con, sock, addr) for a con that is not NULL; addr is <<>>
\* for NULL, sa is what the socket would answer, accepted is what
\* accept_ip_address returns for the text stored: [con, ret, ids, asked]
\* with ids the number of ids taken and asked the text given to
\* accept_ip_address, if it was called
connection_init(c, sock, addr, sa, accepted) ==
    IF sock = SOCK_ERROR
    THEN [con |-> [c EXCEPT !.sock = sock], ret |-> -1, ids |-> 0, asked |-> <<>>]
    ELSE IF addr # <<>>
    THEN [con |-> [sock |-> sock, id |-> current_id + 1, ip |-> <<StripMapped(addr[1])>>],
          ret |-> 0, ids |-> 1, asked |-> <<>>]
    ELSE IF sa.peer /\ accepted
    THEN [con |-> [sock |-> sock, id |-> current_id + 1,
                   ip |-> <<StripMapped(getnameinfo(sa))>>],
          ret |-> 0, ids |-> 1, asked |-> <<StripMapped(getnameinfo(sa))>>]
    ELSE [con |-> NoIcon, ret |-> -1, ids |-> 1,
          asked |-> IF sa.peer THEN <<StripMapped(getnameinfo(sa))>> ELSE <<>>]

\* a thread calls connection_init (&con, sock, addr) on a connection_t
connection_init_call(sock, addr, sa, victim) ==
    /\ current_id < MaxIds
    /\ LET ask == sock # SOCK_ERROR /\ addr = <<>> /\ sa.peer
           ip == StripMapped(getnameinfo(sa))
           r == connection_init(icon, sock, addr, sa,
                                ask /\ AcceptIp(ip, victim).ret # 0)
       IN /\ icon' = r.con
          /\ current_id' = current_id + r.ids
          /\ initOp' = InitOp("connection_init", sock, addr, sa, r.ret)
          /\ IF ask THEN AcceptIpEffects(ip, victim)
             ELSE victim = NoVictim /\ UNCHANGED <<banVars, evictVars, joinVars>>
    /\ UNCHANGED <<connection_lock, pc, id, tcon, handed>>
    /\ UNCHANGED <<connVars, listenVars, clientVars, acceptVars, handlerVars, ioVars,
                   miscVars, kernelVars, joinVars>>

\* the calls of connection_init, each case of its arguments once: the socket
\* is only asked when there is a socket and no address
NextInit ==
    \/ \E sock \in {SOCK_ERROR, 4}, addr \in {<<>>} \cup {<<t>> : t \in AddrTexts},
          sa \in SockNames :
          /\ (sock = SOCK_ERROR \/ addr # <<>>) => sa = NoPeerName
          /\ sock = SOCK_ERROR => addr = <<>>
          /\ connection_init_call(sock, addr, sa, NoVictim)
    \/ banned_ip_load
    \/ \E lines \in AllowLists : allowed_ip_load(lines)
    \/ connection_add_banned_ip(Ip1, -1)

\* the text connection_init was given: the caller's, or the socket's
C11_Given == IF initOp.addr # <<>> THEN initOp.addr[1] ELSE getnameinfo(initOp.sa)

\* whether a text begins with "::ffff:"
C11_Mapped(t) == Len(t) >= 7 /\ \A i \in 1..7 : t[i] = T_mapped[i]

\* C11: after a connection_init that returned 0, the stored ip is the text it
\* was given (by the caller, or by the socket) without a leading "::ffff:",
\* and is that text itself when it has no such prefix.
C11_MappedPrefixRemoved ==
    (initOp.op = "connection_init" /\ initOp.ret = 0) =>
        /\ icon.ip # <<>>
        /\ C11_Mapped(C11_Given) => T_mapped \o icon.ip[1] = C11_Given
        /\ ~C11_Mapped(C11_Given) => icon.ip[1] = C11_Given

\* C11 witness: the address came from the socket, had the prefix, and was
\* stored without it
C11_Witness ==
    /\ initOp.op = "connection_init" /\ initOp.ret = 0
    /\ initOp.addr = <<>>
    /\ C11_Given = T_mapped \o Ip1
    /\ icon.ip = <<Ip1>>

\* a run of the legacy adapter
C29_LegacyStep ==
    /\ client.ops = "shoutcast_source_ops"
    /\ clientOp'.op = "shoutcast_source_client"

\* the response is queued and not yet written out: the password phase is
\* over
C29_Writing(c) ==
    /\ c.ops = "shoutcast_source_ops" /\ c.shared_data.null /\ ~c.refbuf.null

\* C29: the legacy adapter makes http_request_ops the client's operations
\* only in a run after which all of "OK2\r\nicy-caps:11\r\n\r\n" has gone to the
\* peer; a run whose write is partial or would block leaves the client in
\* the legacy operations with the response and the synthetic request queued
\* and the position at what was written; a run that finds the response
\* queued reads nothing from the peer and keeps the queued request; at the
\* switch the synthetic request is the preamble buffer and the position 0.
C29_SwitchAfterWholeResponse ==
    [][C29_LegacyStep
       => /\ client'.ops = "http_request_ops"
                => /\ sent' = T_OK2
                   /\ client'.pos = 0
                   /\ client'.refbuf.null
                   /\ ~client'.shared_data.null
                   /\ Take(client'.shared_data.data, Len(T_SOURCE_sp)) = T_SOURCE_sp
                   /\ client'.shared_data.len = Len(client'.shared_data.data)
          /\ (client'.ops \notin {"http_request_ops", "destroyed"} /\ ~client'.refbuf.null)
                => /\ C29_Writing(client')
                   /\ sent' # T_OK2
                   /\ sent' = Take(T_OK2, client'.pos)
                   /\ client'.refbuf.data = T_OK2
                   /\ client'.refbuf.associated # <<>>
          /\ C29_Writing(client)
                => /\ peer' = peer
                   /\ client'.ops = "http_request_ops"
                         => client'.shared_data = client.refbuf.associated[1]
                   /\ client'.ops = "shoutcast_source_ops"
                         => client'.refbuf = client.refbuf
          /\ (client'.ops = "shoutcast_source_ops" /\ client'.refbuf.null)
                => sent' = <<>>]_vars

\* a partial write has left the legacy adapter with part of the response
\* sent, and the client in the legacy operations
C29_Witness ==
    /\ clientOp.op = "shoutcast_source_client" /\ clientOp.ret = 0
    /\ C29_Writing(client)
    /\ client.pos > 0 /\ client.pos < client.refbuf.len
    /\ sent = Take(T_OK2, client.pos)

\* the offsets just after each header terminator of the three forms in str
C33_Ends(str) ==
    {Strstr(str, t) + Len(t) : t \in {p \in {T_CRLFCRLF, T_LFLF, T_CRCRLFCRCRLF} :
                                         Strstr(str, p) >= 0}}

\* the offset just after the earliest header terminator in str
C33_EarliestEnd(str) ==
    CHOOSE n \in C33_Ends(str) : \A m \in C33_Ends(str) : n <= m

\* C33: when a SOURCE or PUT request has been passed to the source handler,
\* the early-body buffer holds the bytes received after the earliest header
\* terminator of the request, whichever of the three forms it has and
\* whatever forms occur after it.
C33_BodyFollowsEarliestTerminator ==
    (clientOp.op = "http_client_request" /\ clientOp.process = "_handle_source_request")
        => client.refbuf.data = Drop(request, C33_EarliestEnd(CStr(request)))

\* the same for the requests in which the terminator "\r\n\r\n" comes first
C33_BodyFollowsCrlfTerminator ==
    (/\ clientOp.op = "http_client_request"
     /\ clientOp.process = "_handle_source_request"
     /\ C33_EarliestEnd(CStr(request)) = Strstr(CStr(request), T_CRLFCRLF) + 4)
        => client.refbuf.data = Drop(request, C33_EarliestEnd(CStr(request)))

\* ========================================================================
\* 9. The accept thread (connection_thread, accept_client,
\*    wait_for_serversock)
\* ========================================================================

\* descriptors the kernel hands out for accepted connections
AcceptFds == 20..(20 + MaxAccepts)

\* the addresses sock_accept may report: a plain one and an IPv4-mapped one
AcceptAddrs == {Ip1, T_mapped \o Ip1}

\* a client_t as accept_client builds it; null stands for no client, and
\* server_conn 0 and ops "NULL" for the pointers calloc left at zero
NoAClient ==
    [null |-> TRUE, con |-> NoIcon, ssl |-> FALSE, server_conn |-> 0,
     ops |-> "NULL", active |-> FALSE, discon |-> 0]

NoLocal == [serversock |-> SOCK_ERROR, sock |-> SOCK_ERROR, addr |-> <<>>,
            client |-> NoAClient]

AcceptOp(op, ret) == [op |-> op, ret |-> ret]

AcceptInit ==
    /\ connection_running = 0
    /\ apc = "idle"
    /\ alocal = NoLocal
    /\ asocks = {}
    /\ clients = 0
    /\ added = NoAClient
    /\ unlocked_write = FALSE
    /\ sweeps = 0
    /\ acceptOp = AcceptOp("none", "none")

\* no credential check has run
NoPass == [op |-> "none", parser |-> NoParser, pass |-> <<>>, login |-> 0, ret |-> 0]

MiscInit ==
    /\ schedule_config_reread = 0
    /\ passOp = NoPass
    /\ pending = {}
    /\ evicted = {}
    /\ joining = "no"

\* what a step of the accept thread leaves alone when it touches neither the
\* listen arrays nor the caches
AcceptQuiet == UNCHANGED <<idVars, connVars, listenVars, banVars, clientVars, initVars, handlerVars,
                          ioVars, miscVars, kernelVars, evictVars, joinVars>>

\* connection_thread_startup (): the flag is cleared and the thread created
connection_thread_startup ==
    /\ apc = "idle"
    /\ connection_running' = 0
    /\ apc' = "start"
    /\ acceptOp' = AcceptOp("connection_thread_startup", "none")
    /\ UNCHANGED <<alocal, asocks, clients, added, unlocked_write, sweeps>>
    /\ AcceptQuiet

\* connection_thread up to its loop: the listening sockets are set up and
\* connection_running is set
connection_thread_begin(luck) ==
    /\ apc = "start"
    /\ SetupSockets(luck)
    /\ connection_running' = 1
    /\ apc' = "loop"
    /\ acceptOp' = AcceptOp("connection_thread", "started")
    /\ UNCHANGED <<alocal, asocks, clients, added, unlocked_write, sweeps>>
    /\ UNCHANGED <<idVars, connVars, banVars, clientVars, initVars, handlerVars, ioVars, miscVars, kernelVars, evictVars, joinVars>>

\* "while (connection_running)": on to accept_client, or out of the loop,
\* where the caches are cleared and the thread finishes
connection_thread_test ==
    /\ apc = "loop"
    /\ IF connection_running # 0
       THEN /\ apc' = "poll"
            /\ acceptOp' = AcceptOp("connection_thread", "again")
            /\ UNCHANGED banVars
       ELSE /\ apc' = "finished"
            /\ acceptOp' = AcceptOp("connection_thread", "finished")
            /\ banned_ip' = [active |-> FALSE, contents |-> {}, wildcards |-> <<>>]
            /\ allowed_ip' = <<>>
            /\ born' = NoBorn
            /\ lastHit' = -1
            /\ banOp' = BanOp("clear", <<>>, 0, -1, 0)
            /\ UNCHANGED <<now, ticks, cachefile_timecheck>>
    /\ UNCHANGED <<connection_running, alocal, asocks, clients, added, unlocked_write,
                   sweeps>>
    /\ UNCHANGED <<idVars, connVars, listenVars, clientVars, initVars, handlerVars, ioVars, miscVars, kernelVars, evictVars, joinVars>>

\* connection_thread_shutdown (): the flag is cleared (the caller then joins
\* the thread)
connection_thread_shutdown ==
    /\ apc \notin {"idle", "finished"}
    /\ connection_running # 0
    /\ connection_running' = 0
    /\ acceptOp' = AcceptOp("connection_thread_shutdown", "none")
    /\ UNCHANGED <<apc, alocal, asocks, clients, added, unlocked_write, sweeps>>
    /\ AcceptQuiet

\* what poll may report for a listening socket
PollEvents == {"none", "POLLIN", "POLLHUP", "POLLERR", "POLLNVAL"}

\* what the signal descriptor may deliver
Signals == {"none", "SIGTERM", "SIGHUP"}

\* "remove any closed sockets": the entries below n that are not SOCK_ERROR
\* moved to the front of the socket array, the rest of the array as it was
Compact(sock, n) ==
    LET kept == SelectSeq(SubSeq(sock, 1, n), LAMBDA f : f # SOCK_ERROR)
    IN [sock |-> [k \in 1..Len(sock) |-> IF k <= Len(kept) THEN kept[k] ELSE sock[k]],
        n |-> Len(kept)]

\* the profile array after the sweep of wait_for_serversock, which has no
\* statement that writes it
SweptConn(sock, conn, n) == conn

RECURSIVE SweepLoop(_, _, _)
\* the for loop of wait_for_serversock over the poll results (1-based): the
\* first readable socket is returned at once; a socket with an error or a
\* hangup is closed and its slot set to SOCK_ERROR, one that is invalid has
\* its slot set only.  st holds sock, o, ret, and done (the loop ran out)
SweepLoop(i, st, revents) ==
    IF i > server_sockets THEN [st EXCEPT !.done = TRUE]
    ELSE IF revents[i] = "POLLIN" THEN [st EXCEPT !.ret = serversock[i]]
    ELSE IF revents[i] \in {"POLLHUP", "POLLERR"}
    THEN SweepLoop(i + 1, [st EXCEPT !.o = SockClose(@, st.sock[i]),
                                     !.sock[i] = SOCK_ERROR], revents)
    ELSE IF revents[i] = "POLLNVAL"
    THEN SweepLoop(i + 1, [st EXCEPT !.sock[i] = SOCK_ERROR], revents)
    ELSE SweepLoop(i + 1, st, revents)

\* what the kernel may report for the descriptor in a slot: nothing for a
\* negative one, POLLNVAL for one that is not open, anything else for an open
\* one
Reportable(fd, ev) ==
    IF fd < 0 THEN ev = "none"
    ELSE IF fd \in OpenFds(os) THEN ev # "POLLNVAL"
    ELSE ev = "POLLNVAL"

\* accept_client as far as wait_for_serversock takes it: poll, the signal
\* read, the sweep of the listening sockets.  Without a readable socket
\* accept_client returns NULL.
WaitForServersock(revents, sig) ==
    /\ apc = "poll"
    /\ \A i \in 1..server_sockets : Reportable(serversock[i], revents[i])
    /\ LET failed == \E i \in 1..server_sockets : revents[i] \notin {"none", "POLLIN"}
       IN /\ failed => sweeps < MaxSweeps
          /\ sweeps' = IF failed THEN sweeps + 1 ELSE sweeps
    /\ LET quiet == sig = "none" /\ \A i \in 1..server_sockets : revents[i] = "none"
           st == SweepLoop(1, [sock |-> serversock, o |-> os, ret |-> SOCK_ERROR,
                               done |-> FALSE], revents)
           c == Compact(st.sock, server_sockets)
       IN /\ serversock' = IF quiet THEN serversock
                           ELSE IF st.done THEN c.sock ELSE st.sock
          /\ server_sockets' = IF ~quiet /\ st.done THEN c.n ELSE server_sockets
          /\ server_conn' = IF ~quiet /\ st.done
                            THEN SweptConn(st.sock, server_conn, server_sockets)
                            ELSE server_conn
          /\ os' = IF quiet THEN os ELSE st.o
          /\ unlocked_write' = (\/ unlocked_write
                                 \/ serversock' # serversock
                                 \/ server_sockets' # server_sockets)
          /\ alocal' = [NoLocal EXCEPT !.serversock = IF quiet THEN SOCK_ERROR ELSE st.ret]
          /\ apc' = IF ~quiet /\ st.ret # SOCK_ERROR THEN "accept" ELSE "loop"
          /\ acceptOp' = AcceptOp("wait_for_serversock",
                                  IF quiet THEN "timeout"
                                  ELSE IF st.ret # SOCK_ERROR THEN "readable"
                                  ELSE "swept")
    /\ running' = IF sig = "SIGTERM" THEN "ICE_HALTING" ELSE running
    /\ connection_running' = IF sig = "SIGTERM" THEN 0 ELSE connection_running
    /\ schedule_config_reread' = IF sig = "SIGHUP" THEN 1 ELSE schedule_config_reread
    /\ UNCHANGED <<config, heap, listen_oob, listenOp>>
    /\ UNCHANGED <<asocks, clients, added>>
    /\ UNCHANGED <<client, peer, sent, current_time, request, clientOp>>
    /\ UNCHANGED <<idVars, connVars, banVars, initVars, handlerVars, ioVars, passOp,
                 kernelVars, evictVars, joinVars>>

\* wait_for_serversock where every connection accepted may become a client:
\* a readable socket is followed while the registry and the ids have room
wait_for_serversock(revents, sig) ==
    /\ (\E i \in 1..server_sockets : revents[i] = "POLLIN") =>
           clients < MaxAccepts /\ current_id < MaxIds
    /\ WaitForServersock(revents, sig)

\* the descriptor the kernel gives the next accepted connection
NewAcceptFd == CHOOSE f \in AcceptFds \ asocks : \A g \in AcceptFds \ asocks : f <= g

\* accept_client: sock_accept (serversock, addr, 200).  It fails when the
\* descriptor is no longer a listening socket, or for the kernel's reasons
\* (would-block, or an error after which the thread sleeps); on failure
\* accept_client returns NULL
SockAccept(outcome, addr) ==
    /\ apc = "accept"
    /\ IF alocal.serversock \in OpenFds(os) /\ outcome = "ok"
       THEN /\ alocal' = [alocal EXCEPT !.sock = NewAcceptFd, !.addr = <<addr>>]
            /\ asocks' = asocks \cup {NewAcceptFd}
            /\ apc' = "screen"
            /\ acceptOp' = AcceptOp("sock_accept", "ok")
       ELSE /\ alocal' = NoLocal
            /\ asocks' = asocks
            /\ apc' = "loop"
            /\ acceptOp' = AcceptOp("sock_accept", "failed")
    /\ UNCHANGED <<connection_running, clients, added, unlocked_write, sweeps>>
    /\ UNCHANGED <<idVars, connVars, listenVars, banVars, clientVars, initVars, handlerVars,
                   ioVars, miscVars, evictVars, joinVars>>

\* sock_accept where the kernel's queues are not followed
sock_accept(outcome, addr) == SockAccept(outcome, addr) /\ UNCHANGED kernelVars

\* the for loop of accept_client under the global lock: the first place of
\* the socket array, below the count, that holds serversock; 0 when none does
FindListener(fd) ==
    IF \E i \in 1..server_sockets : serversock[i] = fd
    THEN CHOOSE i \in 1..server_sockets :
             /\ serversock[i] = fd
             /\ \A j \in 1..(i - 1) : serversock[j] # fd
    ELSE 0

\* the client accept_client returns for the accepted socket: calloc,
\* connection_init with the address of sock_accept, and the registration, in
\* which place i of the arrays (0: none) gives the profile and the operations
NewClient(sock, addr, i, tls) ==
    LET l == IF i = 0 THEN 0 ELSE server_conn[i]
    IN [null |-> FALSE,
        con |-> connection_init(NoIcon, sock, <<addr>>, NoPeerName, FALSE).con,
        ssl |-> l # 0 /\ heap[l].ssl # 0 /\ tls,
        server_conn |-> l,
        ops |-> IF l = 0 THEN "NULL"
                ELSE IF heap[l].shoutcast_compat # 0 THEN "shoutcast_source_ops"
                ELSE "http_request_ops",
        active |-> TRUE,
        discon |-> 0]

\* accept_client after sock_accept: the address is screened, the socket
\* options set, the client allocated, initialised and registered.  tcp and
\* mem say whether the socket options and calloc succeed, tls is ssl_ok.  A
\* client refused is freed, its socket closed, and NULL returned.
accept_client(tcp, mem, tls) ==
    /\ apc = "screen"
    /\ AcceptIpEffects(alocal.addr[1], NoVictim)
    /\ IF AcceptIp(alocal.addr[1], NoVictim).ret = 0 \/ ~tcp \/ ~mem
       THEN /\ asocks' = asocks \ {alocal.sock}
            /\ alocal' = NoLocal
            /\ apc' = "loop"
            /\ acceptOp' = AcceptOp("accept_client",
                                    IF AcceptIp(alocal.addr[1], NoVictim).ret = 0
                                    THEN "denied" ELSE "dropped")
            /\ UNCHANGED <<current_id, clients, heap>>
       ELSE LET i == FindListener(alocal.serversock)
                c == NewClient(alocal.sock, alocal.addr[1], i, tls)
            IN /\ current_id' = current_id + 1
               /\ clients' = clients + 1
               /\ heap' = IF i = 0 THEN heap
                          ELSE [heap EXCEPT ![server_conn[i]].refcount = @ + 1]
               /\ alocal' = [alocal EXCEPT !.client = c]
               /\ asocks' = asocks
               /\ apc' = "add"
               /\ acceptOp' = AcceptOp("accept_client", "client")
    /\ UNCHANGED <<connection_running, added, unlocked_write, sweeps>>
    /\ UNCHANGED <<serversock, server_conn, server_sockets, config, os, listen_oob,
                   listenOp>>
    /\ UNCHANGED <<connection_lock, pc, id, tcon, handed>>
    /\ UNCHANGED <<connVars, clientVars, initVars, handlerVars, ioVars, miscVars,
                   kernelVars, joinVars>>

\* connection_thread with the client accept_client returned: the deadline is
\* set and the client handed to the workers
connection_thread_add ==
    /\ apc = "add"
    /\ added' = [alocal.client EXCEPT !.discon = now + header_timeout]
    /\ alocal' = NoLocal
    /\ apc' = "loop"
    /\ acceptOp' = AcceptOp("client_add_worker", "none")
    /\ UNCHANGED <<connection_running, asocks, clients, unlocked_write, sweeps>>
    /\ AcceptQuiet

\* the configurations loaded while the accept thread runs
AcceptConfigs == {c \in Configs : \A k \in 1..Len(c) : c[k] \in {ListenerKinds[1], ListenerKinds[2]}}

\* the kernel refuses no listening socket that does not conflict
AllOk == [j \in 1..MaxListeners |-> "ok"]

\* a store past the end of the listen arrays has not happened; what the
\* process does after one is not followed
Intact == ~listen_oob

\* the poll loop of the accept thread, sweeping listening sockets that report
\* a hangup or an error, with the listen-socket manager reconfiguring the
\* listeners while it runs; no connection is accepted
NextSweep ==
    \/ connection_thread_startup
    \/ Intact /\ connection_thread_begin(AllOk)
    \/ connection_thread_test
    \/ \E revents \in [1..server_sockets -> PollEvents], sig \in {"none", "SIGHUP"} :
          Intact /\ wait_for_serversock(revents, sig)
    \/ sock_accept("failed", Ip1)
    \/ \E kinds \in AcceptConfigs : Intact /\ config_reload(kinds)
    \/ Intact /\ connection_setup_sockets(AllOk)
    \/ \E cfgNull \in BOOLEAN, all \in {0, 1} :
          /\ Intact
          /\ cfgNull <=> all = 1
          /\ connection_listen_sockets_close(cfgNull, all)

\* the accept thread accepting connections, with the listen-socket manager
\* reconfiguring the listeners while it runs; no listening socket fails
NextAccept ==
    \/ connection_thread_startup
    \/ connection_thread_begin(AllOk)
    \/ connection_thread_test
    \/ \E revents \in [1..server_sockets -> {"none", "POLLIN"}] :
          wait_for_serversock(revents, "none")
    \/ \E outcome \in {"ok", "failed"} : sock_accept(outcome, Ip1)
    \/ accept_client(TRUE, TRUE, TRUE)
    \/ connection_thread_add
    \/ \E kinds \in AcceptConfigs : config_reload(kinds)
    \/ connection_setup_sockets(AllOk)
    \/ \E cfgNull \in BOOLEAN, all \in {0, 1} :
          /\ cfgNull <=> all = 1
          /\ connection_listen_sockets_close(cfgNull, all)

\* the accept thread on listeners set up once, with addresses being banned
\* and the process being stopped while it runs
NextScreen ==
    \/ \E kinds \in AcceptConfigs : apc = "idle" /\ config_reload(kinds)
    \/ connection_thread_startup
    \/ connection_thread_begin(AllOk)
    \/ connection_thread_test
    \/ \E revents \in [1..server_sockets -> {"none", "POLLIN"}], sig \in Signals :
          wait_for_serversock(revents, sig)
    \/ \E outcome \in {"ok", "failed"}, addr \in AcceptAddrs :
          /\ outcome = "failed" => addr = Ip1
          /\ sock_accept(outcome, addr)
    \/ \E tcp, mem, tls \in BOOLEAN :
          /\ ~tcp => mem /\ tls
          /\ ~mem => tls
          /\ accept_client(tcp, mem, tls)
    \/ connection_thread_add
    \/ connection_thread_shutdown
    \/ banned_ip_load
    \/ \E lines \in AllowLists : allowed_ip_load(lines)
    \/ \E ip \in {Ip1, Pat1} : connection_add_banned_ip(ip, -1)
    \/ halt

\* whether the access cache denies an address: it holds a permanent ban
\* entry for it, a ban pattern matches it, or there is an allow list and no
\* line of it matches
C13_Denied(ip) ==
    \/ banned_ip.active /\ [ip |-> ip, timeout |-> 0] \in banned_ip.contents
    \/ \E k \in 1..Len(banned_ip.wildcards) : Glob(ip, banned_ip.wildcards[k])
    \/ allowed_ip # <<>> /\ \A k \in 1..Len(allowed_ip) : ~Glob(ip, allowed_ip[k])

\* C13: when accept_client screens an accepted connection whose address the
\* access cache denies, the accepted socket is closed and accept_client
\* returns NULL: no client is registered or handed to the workers, no
\* listener refcount changes, no connection id is taken, and nothing is read
\* from the peer.
C13_DeniedPeerDropped ==
    [][(apc = "screen" /\ acceptOp'.op = "accept_client" /\ C13_Denied(alocal.addr[1]))
       => /\ alocal.sock \notin asocks'
          /\ apc' = "loop" /\ alocal'.client.null
          /\ clients' = clients /\ added' = added
          /\ heap' = heap
          /\ current_id' = current_id
          /\ peer' = peer /\ client' = client]_vars

\* C13 witness: a connection from an address with a permanent ban entry was
\* accepted and dropped, the ban search having matched
C13_Witness ==
    /\ acceptOp = AcceptOp("accept_client", "denied")
    /\ banOp.op = "lookup" /\ banOp.ip = Ip1 /\ banOp.ret = 1
    /\ [ip |-> Ip1, timeout |-> 0] \in banned_ip.contents
    /\ asocks = {} /\ clients = 0 /\ current_id = 0

\* the ban cache holds a permanent literal entry for the text ip
C35_LiteralBanned(ip) ==
    banned_ip.active /\ [ip |-> ip, timeout |-> 0] \in banned_ip.contents

\* C35: accept_client screens the canonical text of the peer's address, the
\* text connection_init stores: a peer whose address sock_accept gives as
\* "::ffff:" followed by an IPv4 literal is refused whenever that IPv4
\* literal has a permanent entry in the ban cache, as is a peer whose
\* address is the literal itself.
C35_MappedPeerOfBannedLiteralRefused ==
    [][(apc = "screen" /\ acceptOp'.op = "accept_client"
        /\ C35_LiteralBanned(StripMapped(alocal.addr[1])))
       => acceptOp'.ret = "denied"]_vars

\* the same for the text sock_accept gave, prefix and all
C35_PeerOfBannedTextRefused ==
    [][(apc = "screen" /\ acceptOp'.op = "accept_client"
        /\ C35_LiteralBanned(alocal.addr[1]))
       => acceptOp'.ret = "denied"]_vars

\* the text looked up in the ban cache is the text stored on the connection
\* of the client accepted
C35_ScreenedTextIsStoredText ==
    [][(apc = "screen" /\ acceptOp' = AcceptOp("accept_client", "client"))
       => banOp'.ip = alocal'.client.con.ip[1]]_vars

\* C16: with the running flag at halting, the loop test of the accept thread
\* does not go on to another accept_client and its poll: the thread leaves
\* the loop.
C16_HaltingLeavesAcceptLoop ==
    [][(running # "ICE_RUNNING" /\ apc = "loop") => apc' # "poll"]_vars

\* with connection_running cleared, the loop test leaves the loop
C16_ClearedFlagLeavesAcceptLoop ==
    [][(connection_running = 0 /\ apc = "loop") => apc' \in {"loop", "finished"}]_vars

\* C18: the first server_sockets places of the socket array and of the
\* profile array exist, each of these places of the socket array holds an
\* open listening socket, and that socket is the one bound for the profile in
\* the same place of the profile array.
C18_ArraysCorrespond ==
    /\ server_sockets <= Len(serversock)
    /\ server_sockets <= Len(server_conn)
    /\ \A i \in 1..server_sockets :
          /\ server_conn[i] \in LIds
          /\ \E s \in os : /\ s.fd = serversock[i]
                           /\ s.port = heap[server_conn[i]].port
                           /\ s.bind = heap[server_conn[i]].bind

\* C19: the client last handed to the workers has an initialised connection
\* (socket, id and address), an operation set and a listener profile.
C19_AddedClientComplete ==
    ~added.null =>
        /\ added.con.sock # SOCK_ERROR /\ added.con.id > 0 /\ added.con.ip # <<>>
        /\ added.ops # "NULL"
        /\ added.server_conn \in LIds

\* C20: a step that changes the socket array, the profile array or their
\* count is a call of the listen-socket manager (by the thread that
\* reconfigures, or by the accept thread when it starts), not the poll of
\* the accept thread, and leaves no write made without the global lock.
C20_ManagerIsSoleWriter ==
    [][(\/ serversock' # serversock
        \/ server_conn' # server_conn
        \/ server_sockets' # server_sockets)
       => /\ apc' = apc \/ apc = "start"
          /\ ~unlocked_write']_vars

\* C26: a poll of the accept thread that reads a termination signal (INT or
\* TERM) from the signal descriptor returns to the loop test, which leaves the
\* loop, and not to sock_accept, so that no further connection is accepted or
\* handed to the workers; a poll that reads a hangup sets
\* schedule_config_reread and leaves connection_running and global.running
\* as they were.
C26_TerminationStopsAccepting ==
    [][(apc = "poll" /\ acceptOp'.op = "wait_for_serversock")
       => /\ (connection_running # 0 /\ connection_running' = 0)
                => /\ running' = "ICE_HALTING"
                   /\ apc' = "loop"
                   /\ alocal'.serversock = SOCK_ERROR
          /\ schedule_config_reread' # schedule_config_reread
                => /\ schedule_config_reread' = 1
                   /\ connection_running' = connection_running
                   /\ running' = running]_vars

\* ========================================================================
\* 10. The handlers behind the dispatcher (_handle_get_request)
\* ========================================================================

\* "/admin.cgi"
T_admin_cgi == <<47, 97, 100, 109, 105, 110, 46, 99, 103, 105>>
\* "/admin/"
T_admin_slash == <<47, 97, 100, 109, 105, 110, 47>>
\* "/../"
T_dotdot == <<47, 46, 46, 47>>

\* the request URIs a GET may carry: "/", "/s", "/a", "/admin", "/admin.cgi",
\* "/admin.cgi2", "/admin/", "/admin/y", "/%61dmin/y", "/s/../admin/y", "s",
\* "/%zz"
GetUris ==
    {<<47>>,
     <<47, 115>>,
     <<47, 97>>,
     <<47, 97, 100, 109, 105, 110>>,
     <<47, 97, 100, 109, 105, 110, 46, 99, 103, 105>>,
     <<47, 97, 100, 109, 105, 110, 46, 99, 103, 105, 50>>,
     <<47, 97, 100, 109, 105, 110, 47>>,
     <<47, 97, 100, 109, 105, 110, 47, 121>>,
     <<47, 37, 54, 49, 100, 109, 105, 110, 47, 121>>,
     <<47, 115, 47, 46, 46, 47, 97, 100, 109, 105, 110, 47, 121>>,
     <<115>>,
     <<47, 37, 122, 122>>}

\* the value of a hexadecimal digit, -1 for any other byte
HexVal(ch) ==
    IF ch >= 48 /\ ch <= 57 THEN ch - 48
    ELSE IF ch >= 97 /\ ch <= 102 THEN ch - 87
    ELSE IF ch >= 65 /\ ch <= 70 THEN ch - 55
    ELSE -1

RECURSIVE UrlDecode(_)
\* the path with each %xx replaced by the byte it names; <<-1>> is put where
\* an escape is malformed
UrlDecode(u) ==
    IF u = <<>> THEN <<>>
    ELSE IF u[1] # 37 THEN <<u[1]>> \o UrlDecode(Tail(u))
    ELSE IF Len(u) < 3 \/ HexVal(u[2]) < 0 \/ HexVal(u[3]) < 0 THEN <<-1>>
    ELSE <<HexVal(u[2]) * 16 + HexVal(u[3])>> \o UrlDecode(Drop(u, 3))

\* util_normalise_uri (uri): <<>> for NULL, else <<the decoded path>>; a path
\* that does not decode, does not start with a slash or climbs out with ".."
\* is refused
util_normalise_uri(uri) ==
    LET path == UrlDecode(uri)
    IN IF (\E i \in 1..Len(path) : path[i] = -1) \/ path = <<>> \/ path[1] # 47
          \/ Strstr(path, T_dotdot) >= 0
       THEN <<>>
       ELSE <<path>>

\* one alias of the configuration
Alias(source, destination, port, bind_address) ==
    [source |-> source, destination |-> destination, port |-> port,
     bind_address |-> bind_address]

\* the alias lists: none; "/a" to "/admin/y" on any listener; "/admin/y" to
\* "/s" on port 1024, then "/s" to "/admin/y" on bind address "a"
AliasLists ==
    {<<>>,
     <<Alias(<<47, 97>>, <<47, 97, 100, 109, 105, 110, 47, 121>>, -1, NULL)>>,
     <<Alias(<<47, 97, 100, 109, 105, 110, 47, 121>>, <<47, 115>>, 1024, NULL),
       Alias(<<47, 115>>, <<47, 97, 100, 109, 105, 110, 47, 121>>, -1, "a")>>}

\* client->server_conn: NULL or the listener the client came in on
GetListeners ==
    {[null |-> TRUE, port |-> 0, bind_address |-> NULL],
     [null |-> FALSE, port |-> 1024, bind_address |-> NULL],
     [null |-> FALSE, port |-> 1023, bind_address |-> "a"]}

\* the test of one alias against the URI and the accepting listener
AliasMatches(a, uri, serverhost, serverport) ==
    /\ a.source = uri
    /\ a.port = -1 \/ a.port = serverport
    /\ a.bind_address = NULL \/ (serverhost # NULL /\ a.bind_address = serverhost)

\* "Handle aliases": the destination of the first alias that matches, else
\* the URI itself
ApplyAliases(uri, list, serverhost, serverport) ==
    IF \E k \in 1..Len(list) : AliasMatches(list[k], uri, serverhost, serverport)
    THEN list[MinOf({k \in 1..Len(list) :
                        AliasMatches(list[k], uri, serverhost, serverport)})].destination
    ELSE uri

\* the admin test with the /admin/ prefix left out
AdminPath_CgiOnly(uri) == uri = T_admin_cgi

\* "strcmp (uri, "/admin.cgi") == 0 || strncmp("/admin/", uri, 7) == 0"
AdminPath(uri) == uri = T_admin_cgi \/ Take(uri, 7) = T_admin_slash

GetOp(op, given, uri, nclients, limit, handler) ==
    [op |-> op, given |-> given, uri |-> uri, clients |-> nclients, limit |-> limit,
     handler |-> handler]

HandlerInit == getOp = GetOp("none", <<>>, <<>>, 0, 0, "none")

\* _handle_get_request (client) for the request URI given, with the
\* configuration's aliases and client limit and global.clients as they are
\* read: the URI after normalisation and aliases (<<>> for none), and the
\* function the client is passed to
HandleGet(given, list, listener, nclients, limit) ==
    LET norm == util_normalise_uri(given)
        serverhost == IF listener.null THEN NULL ELSE listener.bind_address
        serverport == IF listener.null THEN 0 ELSE listener.port
        uri == ApplyAliases(norm[1], list, serverhost, serverport)
        client_limit_reached == nclients > limit
    IN IF norm = <<>> THEN [uri |-> <<>>, handler |-> "client_send_400"]
       ELSE [uri |-> <<uri>>,
             handler |-> IF AdminPath(uri) THEN "admin_handle_request"
                         ELSE IF client_limit_reached THEN "client_send_403"
                         ELSE "auth_add_listener"]

_handle_get_request(given, list, listener, nclients, limit) ==
    /\ LET r == HandleGet(given, list, listener, nclients, limit)
       IN getOp' = GetOp("_handle_get_request", given, r.uri, nclients, limit, r.handler)
    /\ HandlerFrame

NextGet ==
    \E given \in GetUris, list \in AliasLists, listener \in GetListeners,
       nclients \in 0..MaxClients, limit \in 0..MaxClients :
       _handle_get_request(given, list, listener, nclients, limit)

\* C22: in GET handling, whenever global.clients exceeds the client limit, a
\* request whose URI after alias substitution is neither /admin.cgi nor
\* under /admin/ gets the 403 response and is not passed to the listener-auth
\* collaborator; a request whose URI after alias substitution is /admin.cgi
\* or under /admin/ is passed to the admin collaborator whatever the count.
C22_LimitSparesAdmin ==
    (getOp.op = "_handle_get_request" /\ getOp.uri # <<>>) =>
        LET u == getOp.uri[1]
            admin == \/ u = T_admin_cgi
                     \/ Len(u) >= 7 /\ SubSeq(u, 1, 7) = T_admin_slash
        IN /\ (getOp.clients > getOp.limit /\ ~admin) => getOp.handler = "client_send_403"
           /\ admin => getOp.handler = "admin_handle_request"

\* C22 witness: with the limit exceeded, "/a" was made "/admin/y" by an alias
\* and went to the admin collaborator
C22_Witness ==
    /\ getOp.op = "_handle_get_request"
    /\ getOp.given = <<47, 97>> /\ getOp.uri = <<<<47, 97, 100, 109, 105, 110, 47, 121>>>>
    /\ getOp.clients > getOp.limit
    /\ getOp.handler = "admin_handle_request"

\* ========================================================================
\* 11. Transport outcomes: the adapter calls and the two readers, with what
\*     the transport did recorded beside them
\* ========================================================================

\* the record of a call: for an adapter call the byte count or length asked,
\* the room the transport had and how it failed when it took nothing; for a
\* reader the outcome of its read (n) and of its write (fail)
IoIn(call, n, cap, fail) == [call |-> call, n |-> n, cap |-> cap, fail |-> fail]

IoInit == ioIn = IoIn("none", 0, 0, "none")

\* what a step of the adapter leaves alone, ioIn apart
AdapterIoFrame ==
    UNCHANGED <<idVars, listenVars, banVars, clientVars, initVars, acceptVars,
                handlerVars, miscVars, kernelVars, evictVars, joinVars>>

\* what a run of a reader leaves alone, ioIn apart
ReaderIoFrame ==
    UNCHANGED <<idVars, connVars, listenVars, banVars, initVars, acceptVars,
                handlerVars, miscVars, kernelVars, evictVars, joinVars>>

connection_read_io(bytes, fail) ==
    /\ ReadEffects(bytes, fail)
    /\ ioIn' = IoIn("read", bytes, 0, fail)
    /\ AdapterIoFrame

connection_read_ssl_io(bytes, fail) ==
    /\ ReadSslEffects(bytes, fail)
    /\ ioIn' = IoIn("read_ssl", bytes, 0, fail)
    /\ AdapterIoFrame

connection_send_io(len, cap, fail) ==
    /\ SendEffects(len, cap, fail)
    /\ ioIn' = IoIn("send", len, cap, fail)
    /\ AdapterIoFrame

connection_send_ssl_io(len, cap, fail) ==
    /\ SendSslEffects(len, cap, fail)
    /\ ioIn' = IoIn("send_ssl", len, cap, fail)
    /\ AdapterIoFrame

shoutcast_source_client_io(rd, wr) ==
    /\ client.ops = "shoutcast_source_ops"
    /\ rd \in ReadOutcomes(ShoutcastRemaining(client.shared_data.len))
    /\ client.shared_data.null => rd = -1
    /\ RunEffects("shoutcast_source_client", ShoutcastRun(client, rd, wr))
    /\ ioIn' = IoIn("shoutcast_source_client", rd, 0, wr)
    /\ ReaderIoFrame

http_client_request_io(rd, wr) ==
    /\ client.ops = "http_request_ops"
    /\ rd \in ReadOutcomes(HttpRemaining(RequestBuf(client).len))
    /\ RunEffects("http_client_request", HttpRun(client, rd, wr))
    /\ ioIn' = IoIn("http_client_request", rd, 0, wr)
    /\ ReaderIoFrame

\* the sessions whose reads and writes are followed: the legacy one and a GET
IoSessions == {1, 3}

\* the adapter is exercised on one connection and the readers on one client,
\* one after the other
NextIo ==
    \/ \E ssl \in {NULL, "ssl"} : client.ops = "none" /\ connection_open(4, ssl)
    \/ \E bytes \in {-1, 0, 1}, fail \in PlainFails :
          client.ops = "none" /\ connection_read_io(bytes, fail)
    \/ \E bytes \in {0, 1}, fail \in SslFails :
          client.ops = "none" /\ connection_read_ssl_io(bytes, fail)
    \/ \E len \in 0..MaxVecLen, cap \in 0..(MaxWire - wire), fail \in PlainFails :
          /\ client.ops = "none"
          /\ cap <= len
          /\ (cap > 0 => fail = "again")
          /\ connection_send_io(len, cap, fail)
    \/ \E len \in 0..MaxVecLen, cap \in 0..(MaxWire - wire), fail \in SslFails :
          /\ client.ops = "none"
          /\ cap <= len
          /\ (cap > 0 /\ len > 0 => fail = "again")
          /\ connection_send_ssl_io(len, cap, fail)
    \/ \E k \in IoSessions : ioOp.op = "none" /\ client_add_worker(k)
    \/ \E rd \in (-2)..PER_CLIENT_REFBUF_SIZE, wr \in WriteOutcomes :
          shoutcast_source_client_io(rd, wr)
    \/ \E rd \in (-2)..PER_CLIENT_REFBUF_SIZE, wr \in WriteOutcomes :
          http_client_request_io(rd, wr)
    \/ client.ops # "none" /\ halt
    \/ client.ops # "none" /\ worker_clock

\* the adapter calls that read or write
C23_AdapterCalls == {"read", "read_ssl", "send", "send_ssl"}

\* the transport failed transiently in the adapter call recorded in io:
\* would-block or interrupted on the plain socket, SSL_ERROR_WANT_* on TLS
C23_Transient(io) ==
    /\ io.fail = "again"
    /\ \/ io.call = "read" /\ io.n = -1
       \/ io.call = "read_ssl" /\ io.n <= 0
       \/ io.call \in {"send", "send_ssl"} /\ io.n > 0 /\ io.cap = 0

\* the transport reported end of stream or a failure that is not recoverable
C23_EndOrFatal(io) ==
    \/ io.call = "read" /\ (io.n = 0 \/ (io.n = -1 /\ io.fail = "fatal"))
    \/ io.call = "read_ssl" /\ io.n <= 0 /\ io.fail \in {"zero", "fatal"}
    \/ io.call \in {"send", "send_ssl"} /\ io.cap = 0 /\ io.fail \in {"zero", "fatal"}

\* the adapter part of C23: a transient failure leaves the error flag as it
\* was, and the flag is set only on end of stream or a failure that is not
\* recoverable
C23_Adapter ==
    (ioOp'.op \in C23_AdapterCalls /\ ioIn'.call = ioOp'.op) =>
        /\ C23_Transient(ioIn') => con'.error = con.error
        /\ (con.error = 0 /\ con'.error = 1) => C23_EndOrFatal(ioIn')

\* this run of the legacy adapter reads from the peer: no error, the deadline
\* ahead, the password buffer there and not full
C23_LegacyReads ==
    /\ clientOp'.op = "shoutcast_source_client" /\ ioIn'.call = clientOp'.op
    /\ client.error = 0 /\ client.discon > current_time
    /\ ~client.shared_data.null
    /\ ShoutcastRemaining(client.shared_data.len) # 0

\* this run of the legacy adapter writes without reading first
C23_LegacyWrites ==
    /\ clientOp'.op = "shoutcast_source_client" /\ ioIn'.call = clientOp'.op
    /\ client.error = 0 /\ client.discon > current_time
    /\ client.shared_data.null

\* this run of the preamble reader reads from the peer
C23_PreambleReads ==
    /\ clientOp'.op = "http_client_request" /\ ioIn'.call = clientOp'.op
    /\ running = "ICE_RUNNING"
    /\ client.discon > current_time
    /\ HttpRemaining(RequestBuf(client).len) # 0

\* the run returned 0 and the client is kept as it was, its error flag clear
C23_Rescheduled ==
    /\ clientOp'.ret = 0
    /\ client'.ops = client.ops
    /\ client'.error = 0
    /\ peer' = peer /\ sent' = sent

\* C23 as stated: a read or write that fails transiently, on the plain or
\* the TLS transport, never sets the connection error flag; the preamble
\* reader and the legacy adapter answer it by returning 0 and keeping the
\* client, never -1; only end of stream or a failure that is not recoverable
\* sets the flag.
C23_TransientReschedules ==
    [][/\ C23_Adapter
       /\ (C23_LegacyReads /\ ioIn'.n = -1) => C23_Rescheduled
       /\ (C23_LegacyWrites /\ ioIn'.fail = "again") => C23_Rescheduled
       /\ (C23_PreambleReads /\ ioIn'.n = -1) => C23_Rescheduled]_vars

\* C23 amended: the same, the legacy adapter's read taken while the process
\* is running; a read of the legacy adapter that fails transiently after
\* global.running has left ICE_RUNNING is answered with -1.
C23_TransientReschedulesWhileRunning ==
    [][/\ C23_Adapter
       /\ (C23_LegacyReads /\ ioIn'.n = -1) =>
             IF running = "ICE_RUNNING" THEN C23_Rescheduled
             ELSE clientOp'.ret = -1 /\ client'.ops = "destroyed"
       /\ (C23_LegacyWrites /\ ioIn'.fail = "again") => C23_Rescheduled
       /\ (C23_PreambleReads /\ ioIn'.n = -1) => C23_Rescheduled]_vars

\* C23 witness: the preamble reader, some of the request read, met a read
\* that would block: it returned 0 and the client is still reading
C23_Witness ==
    /\ ioIn = IoIn("http_client_request", -1, 0, "all")
    /\ clientOp = ClientOp("http_client_request", 0, "none")
    /\ client.ops = "http_request_ops"
    /\ client.error = 0
    /\ Len(client.shared_data.data) = 5

\* ========================================================================
\* 12. The accept thread and the kernel's accept queues
\* ========================================================================

\* the listening sockets in the arrays
Listening == {serversock[i] : i \in 1..server_sockets} \cap OpenFds(os)

\* a connection arrives on a listening socket and waits in its queue
arrive(fd) ==
    /\ apc \notin {"idle", "start", "finished"}
    /\ fd \in Listening \ pending
    /\ pending' = pending \cup {fd}
    /\ UNCHANGED <<idVars, connVars, listenVars, banVars, clientVars, initVars, acceptVars,
                   handlerVars, ioVars, miscVars, evictVars, joinVars>>

\* what poll reports with these queues: POLLIN for a socket with a
\* connection waiting, nothing for the others
QueueEvents ==
    [i \in 1..server_sockets |-> IF serversock[i] \in pending THEN "POLLIN" ELSE "none"]

\* wait_for_serversock on the queues as they are
wait_for_serversock_queued == WaitForServersock(QueueEvents, "none")

\* sock_accept takes the first connection of the queue of the socket
\* wait_for_serversock returned; more says whether another one waits behind it
sock_accept_queued(more) ==
    /\ SockAccept("ok", Ip1)
    /\ pending' = IF more THEN pending ELSE pending \ {alocal.serversock}

\* accept_client after sock_accept: once the registry or the ids are full
\* only connections that are dropped (the socket options fail) are followed
accept_client_queued(tcp) ==
    /\ (clients >= MaxAccepts \/ current_id >= MaxIds) => ~tcp
    /\ accept_client(tcp, TRUE, TRUE)

\* the steps of the accept thread
AcceptThread ==
    \/ connection_thread_begin(AllOk)
    \/ connection_thread_test
    \/ wait_for_serversock_queued
    \/ \E more \in BOOLEAN : sock_accept_queued(more)
    \/ \E tcp \in BOOLEAN : accept_client_queued(tcp)
    \/ connection_thread_add

\* the accept thread on listeners set up once, with connections arriving on
\* them
NextQueue ==
    \/ \E kinds \in AcceptConfigs : apc = "idle" /\ config_reload(kinds)
    \/ connection_thread_startup
    \/ connection_thread_begin(AllOk)
    \/ connection_thread_test
    \/ wait_for_serversock_queued
    \/ \E more \in BOOLEAN : sock_accept_queued(more)
    \/ \E tcp \in BOOLEAN : accept_client_queued(tcp)
    \/ connection_thread_add
    \/ \E fd \in ListenFds : arrive(fd)

\* connection_thread_shutdown () up to thread_join: conn_tid is set from
\* connection_thread_startup on; the flag is cleared and the caller waits
connection_thread_shutdown_call ==
    /\ apc # "idle"
    /\ joining # "waiting"
    /\ connection_running' = 0
    /\ joining' = "waiting"
    /\ acceptOp' = AcceptOp("connection_thread_shutdown", "none")
    /\ UNCHANGED <<apc, alocal, asocks, clients, added, unlocked_write, sweeps>>
    /\ UNCHANGED <<idVars, connVars, listenVars, banVars, clientVars, initVars, handlerVars,
                   ioVars, miscVars, kernelVars, evictVars>>

\* thread_join (conn_tid) returns once the accept thread has finished, and
\* conn_tid is cleared
thread_join ==
    /\ joining = "waiting"
    /\ apc = "finished"
    /\ joining' = "joined"
    /\ apc' = "idle"
    /\ acceptOp' = AcceptOp("thread_join", "none")
    /\ UNCHANGED <<connection_running, alocal, asocks, clients, added, unlocked_write,
                   sweeps>>
    /\ UNCHANGED <<idVars, connVars, listenVars, banVars, clientVars, initVars, handlerVars,
                   ioVars, miscVars, kernelVars, evictVars>>

\* the accept thread started and stopped by another thread, with connections
\* arriving
NextShutdown ==
    \/ \E kinds \in AcceptConfigs : apc = "idle" /\ config_reload(kinds)
    \/ connection_thread_startup
    \/ connection_thread_begin(AllOk)
    \/ connection_thread_test
    \/ wait_for_serversock_queued
    \/ \E more \in BOOLEAN : sock_accept_queued(more)
    \/ \E tcp \in BOOLEAN : accept_client_queued(tcp)
    \/ connection_thread_add
    \/ \E fd \in ListenFds : arrive(fd)
    \/ connection_thread_shutdown_call
    \/ thread_join

\* C34: with the accept thread and the joining thread scheduled fairly, a
\* call of connection_thread_shutdown made at any point after
\* connection_thread_startup is followed by the accept thread leaving its
\* loop and thread_join returning.
C34_ShutdownJoins ==
    (joining = "waiting") ~> (joining = "joined")

\* the same for a call whose clearing of connection_running comes after the
\* accept thread has set it
C34_ShutdownOfStartedThreadJoins ==
    (joining = "waiting" /\ apc # "start" /\ connection_running = 0) ~> (joining = "joined")

\* sock_accept has just taken a connection from the listening socket fd
C27_AcceptedFrom(fd) ==
    acceptOp = AcceptOp("sock_accept", "ok") /\ alocal.serversock = fd

\* C27: with the accept thread scheduled fairly, a listening socket with a
\* connection waiting (it stays readable until sock_accept takes the
\* connection) is eventually accepted from, whatever waits on the other
\* listening sockets.
C27_ReadableListenerServed ==
    \A fd \in ListenFds : (fd \in pending) ~> C27_AcceptedFrom(fd)

\* the same for the socket in the first place of the array only
C27_FirstListenerServed ==
    \A fd \in ListenFds :
        (server_sockets >= 1 /\ serversock[1] = fd /\ fd \in pending)
            ~> C27_AcceptedFrom(fd)

\* ========================================================================
\* 13. The credential check (connection_check_pass, _check_pass_http,
\*     _check_pass_icy, _check_pass_ice)
\* ========================================================================

\* "ICY", "Basic ", "Digest ", and the names of the parser variables
T_ICY == <<73, 67, 89>>
T_Basic_sp == <<66, 97, 115, 105, 99, 32>>
T_Digest_sp == <<68, 105, 103, 101, 115, 116, 32>>
T_authorization == <<97, 117, 116, 104, 111, 114, 105, 122, 97, 116, 105, 111, 110>>
T_ice_password == <<105, 99, 101, 45, 112, 97, 115, 115, 119, 111, 114, 100>>
HTTPP_VAR_ICYPASSWORD == <<95, 95, 105, 99, 121, 95, 112, 97, 115, 115, 119, 111, 114, 100>>

\* the source user, the configured password, and a wrong one of each
T_user == <<117>>
T_pass == <<112>>
T_other == <<120>>

\* whether a byte is of the base64 alphabet, '=' included
IsB64(ch) ==
    \/ ch >= 65 /\ ch <= 90
    \/ ch >= 97 /\ ch <= 122
    \/ ch >= 48 /\ ch <= 57
    \/ ch \in {43, 47, 61}

\* util_base64_decode: <<>> for NULL (the text is not base64), else the
\* bytes it stands for as a C string
util_base64_decode(x) ==
    IF Len(x) % 4 # 0 \/ \E i \in 1..Len(x) : ~IsB64(x[i]) THEN <<>>
    ELSE <<CStr(B64Decode(x))>>

\* _check_pass_http (parser, correctuser, correctpass)
CheckPassHttp(parser, correctuser, correctpass) ==
    LET header == httpp_getvar(parser, T_authorization)
    IN IF header = <<>> THEN 0
       ELSE IF Take(header[1], 6) # T_Basic_sp THEN 0
       ELSE LET userpass == util_base64_decode(Drop(header[1], 6))
            IN IF userpass = <<>> THEN 0
               ELSE LET k == Strcspn(userpass[1], {58})
                        username == Take(userpass[1], k)
                        password == Drop(userpass[1], k + 1)
                    IN IF k = Len(userpass[1]) THEN 0
                       ELSE IF username # correctuser \/ password # correctpass THEN 0
                       ELSE 1

\* _check_pass_icy (parser, correctpass)
CheckPassIcy(parser, correctpass) ==
    LET password == httpp_getvar(parser, HTTPP_VAR_ICYPASSWORD)
    IN IF password = <<>> THEN 0
       ELSE IF password[1] # correctpass THEN 0 ELSE 1

\* _check_pass_ice (parser, correctpass): a request without the header is
\* given the empty password
CheckPassIce(parser, correctpass) ==
    LET given == httpp_getvar(parser, T_ice_password)
        password == IF given = <<>> THEN <<>> ELSE given[1]
    IN IF password # correctpass THEN 0 ELSE 1

\* httpp_getvar (parser, HTTPP_VAR_PROTOCOL): <<>> for NULL
PassProtocol(parser) == IF parser.protocol = <<>> THEN <<>> ELSE <<parser.protocol>>

\* connection_check_pass (parser, user, pass), pass <<>> for NULL, with
\* config->ice_login as login
connection_check_pass(parser, user, pass, login) ==
    IF pass = <<>> THEN -1
    ELSE LET protocol == PassProtocol(parser)
         IN IF protocol # <<>> /\ protocol[1] = T_ICY
            THEN CheckPassIcy(parser, pass[1])
            ELSE LET ret == CheckPassHttp(parser, user, pass[1])
                 IN IF ret = 0 /\ login # 0 THEN CheckPassIce(parser, pass[1])
                    ELSE ret

\* the Authorization values tried: none, the right pair, a wrong password, a
\* wrong user, no colon, not base64, another scheme
AuthValues ==
    {<<>>,
     <<T_Basic_sp \o util_base64_encode(T_user \o <<58>> \o T_pass)>>,
     <<T_Basic_sp \o util_base64_encode(T_user \o <<58>> \o T_other)>>,
     <<T_Basic_sp \o util_base64_encode(T_other \o <<58>> \o T_pass)>>,
     <<T_Basic_sp \o util_base64_encode(T_user \o T_pass)>>,
     <<T_Basic_sp \o <<33, 33, 33, 33>>>>,
     <<T_Digest_sp \o util_base64_encode(T_user \o <<58>> \o T_pass)>>}

\* a password header: absent, right, wrong
PassValues == {<<>>, <<T_pass>>, <<T_other>>}

\* the variable list of a parser with these headers
PassVars(auth, ice, icy) ==
    (IF auth = <<>> THEN <<>> ELSE <<<<T_authorization, auth[1]>>>>)
    \o (IF ice = <<>> THEN <<>> ELSE <<<<T_ice_password, ice[1]>>>>)
    \o (IF icy = <<>> THEN <<>> ELSE <<<<HTTPP_VAR_ICYPASSWORD, icy[1]>>>>)

\* the parsed requests the check is called with
PassParsers ==
    {[NoParser EXCEPT !.ok = TRUE, !.req_type = "httpp_req_source",
                      !.protocol = proto, !.vars = PassVars(auth, ice, icy)] :
        proto \in {T_ICY, T_HTTP}, auth \in AuthValues, ice \in PassValues,
        icy \in PassValues}

\* the source passwords configured: none, "p", the empty one
ConfiguredPasses == {<<>>, <<T_pass>>, <<<<>>>>}

PassOp(parser, pass, login, ret) ==
    [op |-> "connection_check_pass", parser |-> parser, pass |-> pass,
     login |-> login, ret |-> ret]

\* a handler calls connection_check_pass (parser, "u", pass)
connection_check_pass_call(parser, pass, login) ==
    /\ passOp' = PassOp(parser, pass, login,
                        connection_check_pass(parser, T_user, pass, login))
    /\ UNCHANGED <<idVars, connVars, listenVars, banVars, clientVars, initVars, acceptVars,
                   handlerVars, ioVars, schedule_config_reread, kernelVars, evictVars, joinVars>>

NextPass ==
    \E parser \in PassParsers, pass \in ConfiguredPasses, login \in {0, 1} :
        connection_check_pass_call(parser, pass, login)

\* the text an Authorization value of scheme Basic carries, <<>> when there
\* is no such value or it is not base64
C30_BasicText(parser) ==
    LET header == httpp_getvar(parser, T_authorization)
    IN IF header = <<>> \/ Take(header[1], Len(T_Basic_sp)) # T_Basic_sp THEN <<>>
       ELSE util_base64_decode(Drop(header[1], Len(T_Basic_sp)))

\* whether the credentials of the request verify against user "u" and the
\* configured password
C30_Verifies(parser, pass, login) ==
    /\ pass # <<>>
    /\ IF parser.protocol = T_ICY
       THEN httpp_getvar(parser, HTTPP_VAR_ICYPASSWORD) = pass
       ELSE \/ C30_BasicText(parser) = <<T_user \o <<58>> \o pass[1]>>
            \/ login # 0 /\ httpp_getvar(parser, T_ice_password) = pass

\* C30: connection_check_pass returns 1 when the credentials of the request
\* verify (the ICY password for protocol ICY; otherwise the Basic user and
\* password, or with ice_login set the ice-password header) and 0 in every
\* other case, the one with no source password configured included.
C30_OneIffVerifiedElseZero ==
    passOp.op = "connection_check_pass" =>
        passOp.ret = IF C30_Verifies(passOp.parser, passOp.pass, passOp.login)
                     THEN 1 ELSE 0

\* the same with a password configured that is not empty
C30_OneIffVerifiedWhenConfigured ==
    (passOp.op = "connection_check_pass" /\ passOp.pass \notin {<<>>, <<<<>>>>}) =>
        passOp.ret = IF C30_Verifies(passOp.parser, passOp.pass, passOp.login)
                     THEN 1 ELSE 0

\* no call returns 0 with no password configured
C30_UnconfiguredNeverZero ==
    (passOp.op = "connection_check_pass" /\ passOp.pass = <<>>) => passOp.ret = -1

\* ========================================================================
\* Specifications
\* ========================================================================

Init ==
    /\ IdInit /\ ConnInit /\ ListenInit /\ BanInit /\ ClientInit /\ InitInit
    /\ AcceptInit /\ HandlerInit /\ IoInit /\ MiscInit

SpecId == Init /\ [][NextId]_vars

SpecConn == Init /\ [][NextConn]_vars

SpecListen == Init /\ [][NextListen]_vars

SpecBan == Init /\ [][NextBan]_vars

SpecClient == Init /\ [][NextClient]_vars

SpecDispatch == Init /\ [][NextDispatch]_vars

SpecGet == Init /\ [][NextGet]_vars

SpecIo == Init /\ [][NextIo]_vars

SpecInit == Init /\ [][NextInit]_vars

SpecAccept == Init /\ [][NextAccept]_vars

SpecSweep == Init /\ [][NextSweep]_vars

SpecScreen == Init /\ [][NextScreen]_vars

\* the accept thread runs whenever it can: it is a thread of its own that
\* blocks in poll only
SpecQueue == Init /\ [][NextQueue]_vars /\ WF_vars(AcceptThread)

SpecPass == Init /\ [][NextPass]_vars

SpecCapacity == Init /\ [][NextCapacity]_vars

SpecBody == Init /\ [][NextBody]_vars

\* the accept thread and the thread in thread_join run whenever they can
SpecShutdown ==
    Init /\ [][NextShutdown]_vars /\ WF_vars(AcceptThread) /\ WF_vars(thread_join)

====
